---------------------------- MODULE Spec2Model ----------------------------
(***************************************************************************)
(* Harvest + enrichment pipeline of SLR_ID-Meta-analysis.                  *)
(*                                                                         *)
(*   Spec        run_mode / fetch_with_retries of collect_broad.py (the    *)
(*               same code, up to the mode tag and the directory of the    *)
(*               merged file, as collect_precise.py)                       *)
(*   FairSpec    Spec with the program always taking its next step         *)
(*   SpecEnrich  enrich_extract / S2Client of _xtract_n_xport/s2.py        *)
(*                                                                         *)
(* Python's None is the empty tuple <<>> and a present value v is <<v>>    *)
(* wherever a field is optional; text that the code inspects character by  *)
(* character is a sequence of one-character strings.                       *)
(***************************************************************************)
EXTENDS Integers, Sequences, FiniteSets, TLC

\* ------------------------------------------------------------------ bounds
\* pages the server serves for one mode before it must omit the token
MaxPages == 2
\* records in one page
MaxPageLen == 2
\* rows of the dataset handed to enrich_extract
MaxRows == 2
\* largest max_retries a configuration sets
MaxRetriesCfg == 2
\* attempts of one request after which the server stops answering with a
\* retriable outcome
MaxAttempts == 3
\* characters of a text handed to a text function
MaxChars == 4
\* pieces (a prefix, a character) a text handed to normalize_doi is made of
MaxPieces == 3
\* rows of the spreadsheet handed to download_papers
MaxItems == 2

\* -------------------------------------------------------- program constants
\* download_papers.py MAX_RETRIES
MAX_RETRIES == 4

\* ------------------------------------------------------------- small helpers
None == <<>>
Some(v) == <<v>>

Last(s) == s[Len(s)]

RECURSIVE Flatten(_)
Flatten(ss) == IF ss = <<>> THEN <<>> ELSE Head(ss) \o Flatten(Tail(ss))

\* ---------------------------------------------------------- harvest: values
Digit == {"0", "1", "2", "3", "4", "5", "6", "7", "8", "9"}

DigitVal(c) ==
  CASE c = "0" -> 0 [] c = "1" -> 1 [] c = "2" -> 2 [] c = "3" -> 3
    [] c = "4" -> 4 [] c = "5" -> 5 [] c = "6" -> 6 [] c = "7" -> 7
    [] c = "8" -> 8 [] c = "9" -> 9

\* parse_year: None for a missing or empty date, else the integer of the four
\* leading characters when all four are digits (re.match anchors at the start)
parse_year(pubdate) ==
  IF pubdate = None \/ pubdate[1] = <<>> THEN None
  ELSE LET s == pubdate[1] IN
       IF Len(s) >= 4 /\ \A i \in 1..4 : s[i] \in Digit
       THEN Some(1000 * DigitVal(s[1]) + 100 * DigitVal(s[2])
                 + 10 * DigitVal(s[3]) + DigitVal(s[4]))
       ELSE None

\* '; '.join(list): the text as the sequence of its pieces
RECURSIVE Join(_)
Join(l) ==
  IF l = <<>> THEN <<>>
  ELSE IF Len(l) = 1 THEN <<l[1]>>
  ELSE <<l[1], "; ">> \o Join(Tail(l))

\* a tag-list field of a record: a list, a plain string, or None
TagList(l) == [kind |-> "list", v |-> l]
TagStr(s) == [kind |-> "str", v |-> <<s>>]
TagNone == [kind |-> "none", v |-> <<>>]

\* the cell to_csv_rows makes of a tag-list field: the joined text for a list,
\* the value itself otherwise
TagCell(f) == IF f.kind = "list" THEN [kind |-> "str", v |-> Join(f.v)] ELSE f

\* the HarvestRecords the server can return; `extra` stands for the fields of a
\* record that the CSV does not carry
RecFull ==
  [paperId |-> Some("p1"), title |-> Some("Alpha"),
   publicationDate |-> Some(<<"2", "0", "2", "1", "-", "0", "3">>),
   publicationTypes |-> TagList(<<"JournalArticle", "Review">>),
   fieldsOfStudy |-> TagList(<<"Computer Science">>),
   influentialCitationCount |-> Some(3), extra |-> Some("x")]

RecSparse ==
  [paperId |-> Some("p2"), title |-> None,
   publicationDate |-> Some(<<"n", ".", "d", ".", "1", "9", "9", "9">>),
   publicationTypes |-> TagNone,
   fieldsOfStudy |-> TagStr("Medicine"),
   influentialCitationCount |-> None, extra |-> None]

Records == {RecFull, RecSparse}

RECURSIVE SeqsUpTo(_, _)
SeqsUpTo(S, n) ==
  IF n = 0 THEN {<<>>}
  ELSE LET shorter == SeqsUpTo(S, n - 1) IN
       shorter \cup {Append(s, x) : s \in {t \in shorter : Len(t) = n - 1}, x \in S}

\* the `data` of a page: a list of records, or absent
PageData == {None} \cup {Some(d) : d \in SeqsUpTo(Records, MaxPageLen)}

\* the `token` of a page: absent, the empty string, or an opaque string
NoToken == None
Tokens == {Some("t1"), Some("t2")}
FalsyTokens == {NoToken, Some("")}
Falsy(t) == t \in FalsyTokens

\* HTTP statuses the server can answer with
OkStatus == 200
UnboundedRetry == {429, 500}
GatewayRetry == {502, 503, 504}
TerminalErrors == {400, 404}
Statuses == {OkStatus} \cup UnboundedRetry \cup GatewayRetry \cup TerminalErrors

CSV_COLUMNS ==
  <<"mode", "paperId", "title", "publicationDate", "year", "publicationTypes",
    "fieldsOfStudy", "influentialCitationCount">>

MODE == "BROAD"
mode_tag == "broad"

\* cfg -> base_params
base_params ==
  [query |-> "q", year |-> "2000-", fieldsOfStudy |-> "Computer Science",
   fields |-> "paperId,title", limit |-> 1000]


\* ------------------------------------------------------------ harvest: state
VARIABLES
  pc,           \* where run_mode / fetch_with_retries stands
  page_idx,     \* run_mode: 1-based index of the page being fetched
  token,        \* run_mode: continuation token of the last page, None at first
  this_params,  \* run_mode: parameters of the current request
  outcome,      \* fetch_with_retries: what the last requests.get did
  resp,         \* the response fetch_with_retries returned, None before
  data_buffer,  \* run_mode: accumulated records
  page_files,   \* run_mode: the page files written, in order, with their bodies
  notes,        \* run_mode: notes of the ledger
  merged_file,  \* the merged raw file, None until written
  csv_file,     \* the rows of the CSV, None until written
  ledger,       \* the ledger entry run_mode returns, None until then
  served,       \* history: the pages the server answered with HTTP 200, in order
  gets          \* history: <<pages served before the GET, its parameters>>

hvars ==
  <<pc, page_idx, token, this_params, outcome, resp, data_buffer, page_files,
    notes, merged_file, csv_file, ledger, served, gets>>

\* ---------------------------------------------------------- enrichment: state
VARIABLES
  epc,             \* where enrich_extract / S2Client stands
  df,              \* the rows of the input dataset (columns paperId, year, doi)
  batch_size,      \* params["s2"]["batch_size"]
  max_retries,     \* params["s2"]["max_retries"]
  ids,             \* enrich_extract: the paper ids requested
  batch_i,         \* enrich_extract: offset of the current paper batch
  papers,          \* enrich_extract: the papers returned so far
  author_ids,      \* enrich_extract: sorted distinct author ids
  author_j,        \* enrich_extract: offset of the current author batch
  author_info,     \* enrich_extract: author id -> author record
  ref_k,           \* enrich_extract: index of the current references lookup
  max_cited_year,  \* enrich_extract: paper id -> max cited year
  attempt,         \* _post_json / references_years: attempt counter
  eoutcome,        \* what the last request of the client did
  result,          \* the dataset enrich_extract returned, None before
  run_json,        \* provenance/run.json, None while not written
  run_attempted,   \* history: the write of run.json was attempted
  ref_failed,      \* history: ids with a references lookup that failed
  ref_found,       \* history: ids with a lookup that returned integer years
  ref_done,        \* history: number of references lookups finished
  yrs,             \* enrich_extract: what the last references_years returned
  ref_empty,       \* history: ids with a lookup that returned no integer year
  sheet,           \* extracted_dataset.xlsx, None while not written
  posted           \* history: the batches handed to paper_batch / author_batch

evars ==
  <<epc, df, batch_size, max_retries, ids, batch_i, papers, author_ids,
    author_j, author_info, ref_k, max_cited_year, attempt, eoutcome, result, run_json,
    run_attempted, ref_failed, ref_found, ref_done, yrs, ref_empty, sheet, posted>>

\* ------------------------------------------------- text functions: state
VARIABLES
  tpc,    \* "start", then the function that was applied
  text,   \* the argument, a sequence of characters
  ret     \* what the function returned, None before

tvars == <<tpc, text, ret>>

\* -------------------------------------------------------- downloads: state
VARIABLES
  mpc,        \* where download_papers stands
  table,      \* the rows of the spreadsheet (paperId, open_access_pdf_url)
  workers,    \* threads of the pool
  tasks,      \* download_papers: the tasks, in submission order
  job,        \* per task: where _download_task stands in its thread
  out_dir,    \* the output directory: path -> "absent", "empty" or "pdf"
  failures,   \* download_papers: the failure records
  collected   \* the tasks whose future download_papers has taken

dvars == <<mpc, table, workers, tasks, job, out_dir, failures, collected>>

\* ------------------------------------------------- unified collection: state
VARIABLES
  cpc,            \* where main of collect_papers stands
  converted_arg,  \* --converted-dir: None, or the directory named
  dirs,           \* the directories that exist under BASE
  disk,           \* the files that exist, as <<directory, name>>
  converted_dir,  \* main: the converted directory found, None otherwise
  run_calls,      \* the modes whose script was run, in order
  ledger_files,   \* mode -> the ledger its script wrote, None before
  unified,        \* the unified ledger written, None before
  artifacts       \* the artifact list of the manifest, None before

cvars ==
  <<cpc, converted_arg, dirs, disk, converted_dir, run_calls, ledger_files,
    unified, artifacts>>

\* no batch has been handed to the client
NoPosts == [papers |-> <<>>, authors |-> <<>>]

NoOutcome == [exc |-> FALSE, status |-> 0]

\* page_json.get('data') or []
DataOf(page) == IF page.data = None THEN <<>> ELSE page.data[1]

\* fetch_with_retries: the outcomes after which it sleeps and loops
ShouldRetry_returns_500(o) ==
  o.exc \/ o.status = 429 \/ o.status \in GatewayRetry

ShouldRetry(o) ==
  o.exc \/ o.status = 429 \/ o.status = 500 \/ o.status \in GatewayRetry

\* run_mode: the parameters of the request for the current page
ThisParams_drops_token(tok) == [search |-> base_params, token |-> None]

ThisParams(tok) ==
  IF tok = None
  THEN [search |-> base_params, token |-> None]
  ELSE [search |-> base_params, token |-> tok]

\* data_buffer.extend(page_json.get('data') or [])
Extend_replaces(buf, page) == DataOf(page)

Extend(buf, page) == buf \o DataOf(page)

\* run_mode: does the loop go on after this page ("if not token: break")
MorePages(page) == ~Falsy(page.token)

\* to_csv_rows: one row per record
CsvRow(r) ==
  [mode |-> MODE,
   paperId |-> r.paperId,
   title |-> r.title,
   publicationDate |-> r.publicationDate,
   year |-> parse_year(r.publicationDate),
   publicationTypes |-> TagCell(r.publicationTypes),
   fieldsOfStudy |-> TagCell(r.fieldsOfStudy),
   influentialCitationCount |-> r.influentialCitationCount]

RECURSIVE to_csv_rows_dedup(_)
to_csv_rows_dedup(data) ==
  IF data = <<>> THEN <<>>
  ELSE LET rest == to_csv_rows_dedup(Tail(data)) IN
       IF \E i \in 1..Len(rest) : rest[i] = CsvRow(Head(data))
       THEN rest ELSE <<CsvRow(Head(data))>> \o rest

RECURSIVE to_csv_rows(_)
to_csv_rows(data) ==
  IF data = <<>> THEN <<>> ELSE <<CsvRow(Head(data))>> \o to_csv_rows(Tail(data))

\* write_csv: the DataFrame of the rows under the fixed columns
write_csv(data) ==
  LET rows == to_csv_rows(data) IN
  [i \in 1..Len(rows) |-> [c \in {CSV_COLUMNS[k] : k \in 1..Len(CSV_COLUMNS)} |-> rows[i][c]]]

\* the body of an error page file and of a raw page file
ErrorBody(r) ==
  [kind |-> "error", http_status |-> r.status, error |-> r.text,
   data |-> None, token |-> NoToken]

PageBody(r) ==
  [kind |-> "page", http_status |-> 0, error |-> "",
   data |-> r.data, token |-> r.token]

PageFile(idx, body) == [mode |-> mode_tag, idx |-> idx, body |-> body]

AbortNote(status) == <<"HTTP", status,
    "during bulk fetch; saved error page and aborted.">>

ErrorTexts == {"Not Found", "Bad Request"}

InitHarvest ==
  /\ pc = "top"
  /\ page_idx = 0
  /\ token = None
  /\ this_params = None
  /\ outcome = NoOutcome
  /\ resp = None
  /\ data_buffer = <<>>
  /\ page_files = <<>>
  /\ notes = <<>>
  /\ merged_file = None
  /\ csv_file = None
  /\ ledger = None
  /\ served = <<>>
  /\ gets = {}

\* run_mode lines 111-119: the top of the page loop
LoopTop ==
  /\ pc = "top"
  /\ page_idx' = page_idx + 1
  /\ this_params' = Some(ThisParams(token))
  /\ pc' = "get"
  /\ UNCHANGED <<token, outcome, resp, data_buffer, page_files, notes,
                 merged_file, csv_file, ledger, served, gets>>
  /\ UNCHANGED <<evars, tvars, dvars, cvars>>

\* fetch_with_retries: requests.get raises
GetRaises ==
  /\ pc = "get"
  /\ outcome' = [exc |-> TRUE, status |-> 0]
  /\ gets' = gets \cup {<<Len(served), this_params[1]>>}
  /\ pc' = IF ShouldRetry(outcome') THEN "sleep" ELSE "raised"
  /\ UNCHANGED <<page_idx, token, this_params, resp, data_buffer, page_files,
                 notes, merged_file, csv_file, ledger, served>>
  /\ UNCHANGED <<evars, tvars, dvars, cvars>>

\* fetch_with_retries: requests.get answers with a status other than 200
GetError ==
  /\ pc = "get"
  /\ \E st \in Statuses \ {OkStatus}, txt \in ErrorTexts :
       /\ outcome' = [exc |-> FALSE, status |-> st]
       /\ IF ShouldRetry(outcome')
          THEN pc' = "sleep" /\ resp' = resp
          ELSE /\ pc' = "returned"
               /\ resp' = Some([status |-> st, text |-> txt, data |-> None,
                                token |-> NoToken])
  /\ gets' = gets \cup {<<Len(served), this_params[1]>>}
  /\ UNCHANGED <<page_idx, token, this_params, data_buffer, page_files, notes,
                 merged_file, csv_file, ledger, served>>
  /\ UNCHANGED <<evars, tvars, dvars, cvars>>

\* fetch_with_retries: requests.get answers 200 with a page; the server has at
\* most MaxPages pages, so the last of them carries no token
GetPage ==
  /\ pc = "get"
  /\ \E d \in PageData, t \in Tokens \cup FalsyTokens :
       /\ (Len(served) + 1 >= MaxPages) => Falsy(t)
       /\ outcome' = [exc |-> FALSE, status |-> OkStatus]
       /\ resp' = Some([status |-> OkStatus, text |-> "", data |-> d, token |-> t])
       /\ served' = Append(served, [data |-> d, token |-> t])
  /\ gets' = gets \cup {<<Len(served), this_params[1]>>}
  /\ pc' = IF ShouldRetry(outcome') THEN "sleep" ELSE "returned"
  /\ UNCHANGED <<page_idx, token, this_params, data_buffer, page_files, notes,
                 merged_file, csv_file, ledger>>
  /\ UNCHANGED <<evars, tvars, dvars, cvars>>

\* fetch_with_retries: time.sleep(...); continue
Sleep ==
  /\ pc = "sleep"
  /\ pc' = "get"
  /\ UNCHANGED <<page_idx, token, this_params, outcome, resp, data_buffer,
                 page_files, notes, merged_file, csv_file, ledger, served, gets>>
  /\ UNCHANGED <<evars, tvars, dvars, cvars>>

HandleError_discards_pages ==
  /\ pc = "returned"
  /\ resp[1].status # OkStatus
  /\ page_files' = Append(page_files, PageFile(page_idx, ErrorBody(resp[1])))
  /\ notes' = Append(notes, AbortNote(resp[1].status))
  /\ data_buffer' = <<>>
  /\ pc' = "write"
  /\ UNCHANGED <<page_idx, token, this_params, outcome, resp,
                 merged_file, csv_file, ledger, served, gets>>
  /\ UNCHANGED <<evars, tvars, dvars, cvars>>

\* run_mode lines 124-130: a status other than 200 ends the mode
HandleError ==
  /\ pc = "returned"
  /\ resp[1].status # OkStatus
  /\ page_files' = Append(page_files, PageFile(page_idx, ErrorBody(resp[1])))
  /\ notes' = Append(notes, AbortNote(resp[1].status))
  /\ pc' = "write"
  /\ UNCHANGED <<page_idx, token, this_params, outcome, resp, data_buffer,
                 merged_file, csv_file, ledger, served, gets>>
  /\ UNCHANGED <<evars, tvars, dvars, cvars>>

SavePage_accumulates_first ==
  /\ pc = "returned"
  /\ resp[1].status = OkStatus
  /\ data_buffer' = Extend(data_buffer, resp[1])
  /\ pc' = "saved"
  /\ UNCHANGED <<page_idx, token, this_params, outcome, resp, page_files,
                 notes, merged_file, csv_file, ledger, served, gets>>
  /\ UNCHANGED <<evars, tvars, dvars, cvars>>

\* run_mode lines 131-135: the raw page is saved verbatim
SavePage ==
  /\ pc = "returned"
  /\ resp[1].status = OkStatus
  /\ page_files' = Append(page_files, PageFile(page_idx, PageBody(resp[1])))
  /\ pc' = "saved"
  /\ UNCHANGED <<page_idx, token, this_params, outcome, resp, data_buffer,
                 notes, merged_file, csv_file, ledger, served, gets>>
  /\ UNCHANGED <<evars, tvars, dvars, cvars>>

\* run_mode lines 136-142: the records are appended and the token is read
Accumulate ==
  /\ pc = "saved"
  /\ data_buffer' = Extend(data_buffer, resp[1])
  /\ token' = resp[1].token
  /\ pc' = IF MorePages(resp[1]) THEN "top" ELSE "write"
  /\ UNCHANGED <<page_idx, this_params, outcome, resp, page_files, notes,
                 merged_file, csv_file, ledger, served, gets>>
  /\ UNCHANGED <<evars, tvars, dvars, cvars>>

\* run_mode lines 143-171: merged file, CSV and the ledger entry
LedgerOf(buf, files, ns) ==
  [mode |-> MODE,
   raw_export_files |-> [i \in 1..Len(files) |-> [mode |-> files[i].mode, idx |-> files[i].idx]],
   notes |-> ns,
   hits_retrieved |-> Len(buf)]

Finish ==
  /\ pc = "write"
  /\ merged_file' = Some([data |-> data_buffer])
  /\ csv_file' = Some(write_csv(data_buffer))
  /\ ledger' = Some(LedgerOf(data_buffer, page_files, notes))
  /\ pc' = "done"
  /\ UNCHANGED <<page_idx, token, this_params, outcome, resp, data_buffer,
                 page_files, notes, served, gets>>
  /\ UNCHANGED <<evars, tvars, dvars, cvars>>

vars == <<hvars, evars, tvars, dvars, cvars>>

\* the enrichment is a separate run: it has not started
EnrichIdle ==
  /\ epc = "idle"
  /\ df = <<>>
  /\ batch_size = 1
  /\ max_retries = 1
  /\ ids = <<>>
  /\ batch_i = 0
  /\ papers = <<>>
  /\ author_ids = <<>>
  /\ author_j = 0
  /\ author_info = <<>>
  /\ ref_k = 1
  /\ max_cited_year = <<>>
  /\ attempt = 0
  /\ eoutcome = NoOutcome
  /\ result = None
  /\ run_json = None
  /\ run_attempted = FALSE
  /\ ref_failed = {}
  /\ ref_found = {}
  /\ ref_done = 0
  /\ yrs = None
  /\ ref_empty = {}
  /\ sheet = None
  /\ posted = NoPosts

\* no download is under way
DownloadIdle ==
  /\ mpc = "idle"
  /\ table = <<>>
  /\ workers = 1
  /\ tasks = <<>>
  /\ job = <<>>
  /\ out_dir = <<>>
  /\ failures = <<>>
  /\ collected = {}

\* no text function is being applied
TextIdle ==
  /\ tpc = "idle"
  /\ text = <<>>
  /\ ret = None

\* collect_papers is not running
CollectIdle ==
  /\ cpc = "idle"
  /\ converted_arg = None
  /\ dirs = {}
  /\ disk = {}
  /\ converted_dir = None
  /\ run_calls = <<>>
  /\ ledger_files = <<>>
  /\ unified = None
  /\ artifacts = None

Init == InitHarvest /\ EnrichIdle /\ TextIdle /\ DownloadIdle /\ CollectIdle

Next ==
  \/ LoopTop
  \/ GetRaises
  \/ GetError
  \/ GetPage
  \/ Sleep
  \/ HandleError
  \/ SavePage
  \/ Accumulate
  \/ Finish

Spec == Init /\ [][Next]_vars

\* run_mode is sequential code that is always running: it takes its next step
FairSpec == Init /\ [][Next]_vars /\ WF_vars(Next)

TypeOK ==
  /\ pc \in {"top", "get", "sleep", "raised", "returned", "saved", "write", "done"}
  /\ page_idx \in 0..MaxPages
  /\ Len(served) <= MaxPages


\* ------------------------------------------------------------ text functions
\* whitespace, of which the texts of the model use the blank and the tab
Space == {" ", "\t"}

\* \s* at the start of what is left: the text after its leading whitespace
RECURSIVE LStrip(_)
LStrip(s) == IF s # <<>> /\ Head(s) \in Space THEN LStrip(Tail(s)) ELSE s

\* (\d+): the longest run of digits at the start, empty without one
RECURSIVE TakeDigits(_)
TakeDigits(s) ==
  IF s # <<>> /\ Head(s) \in Digit THEN <<Head(s)>> \o TakeDigits(Tail(s)) ELSE <<>>

\* int(m.group(k))
RECURSIVE IntOf(_)
IntOf(ds) ==
  IF ds = <<>> THEN 0
  ELSE IntOf(SubSeq(ds, 1, Len(ds) - 1)) * 10 + DigitVal(ds[Len(ds)])

\* re.match(r"\s*(\d+)\s*-\s*(\d+)\s*$", pages_s): the two groups, None
\* without a match
PagesMatch(pages_s) ==
  LET s1 == LStrip(pages_s)
      a == TakeDigits(s1)
      s2 == LStrip(SubSeq(s1, Len(a) + 1, Len(s1)))
  IN IF a = <<>> \/ s2 = <<>> \/ Head(s2) # "-" THEN None
     ELSE LET s3 == LStrip(Tail(s2))
              b == TakeDigits(s3)
              s4 == LStrip(SubSeq(s3, Len(b) + 1, Len(s3)))
          IN IF b = <<>> \/ s4 # <<>> THEN None ELSE Some(<<a, b>>)

pages_total_without_plus_one(pages_s) ==
  LET m == PagesMatch(pages_s)
  IN IF m = None THEN None
     ELSE LET a == IntOf(m[1][1])
              b == IntOf(m[1][2])
          IN IF b >= a THEN Some(b - a) ELSE None

\* enrich_extract lines 281-286: the value written to pages_total, None when
\* the cell is left as it is
pages_total(pages_s) ==
  LET m == PagesMatch(pages_s)
  IN IF m = None THEN None
     ELSE LET a == IntOf(m[1][1])
              b == IntOf(m[1][2])
          IN IF b >= a THEN Some(b - a + 1) ELSE None

\* the characters of the journal page ranges tried
PageChars == {"1", "2", "-", " ", "x"}

\* a page range is handed to the pages_total computation
InitPages ==
  /\ tpc = "start"
  /\ text \in SeqsUpTo(PageChars, MaxChars)
  /\ ret = None

\* enrich_extract lines 279-286 on the text
ApplyPagesTotal ==
  /\ tpc = "start"
  /\ ret' = pages_total(text)
  /\ tpc' = "pages_total"
  /\ UNCHANGED text
  /\ UNCHANGED <<hvars, evars, dvars, cvars>>

UpperCase ==
  <<"A", "B", "C", "D", "E", "F", "G", "H", "I", "J", "K", "L", "M",
    "N", "O", "P", "Q", "R", "S", "T", "U", "V", "W", "X", "Y", "Z">>

LowerCase ==
  <<"a", "b", "c", "d", "e", "f", "g", "h", "i", "j", "k", "l", "m",
    "n", "o", "p", "q", "r", "s", "t", "u", "v", "w", "x", "y", "z">>

\* upper-case letter -> lower-case letter
LowerMap ==
  [c \in {UpperCase[n] : n \in 1..26} |->
     LowerCase[CHOOSE n \in 1..26 : UpperCase[n] = c]]

\* str.lower() of one character
Lower(c) == IF c \in DOMAIN LowerMap THEN LowerMap[c] ELSE c

\* s.strip(cs): the characters of cs removed at both ends
RECURSIVE LStripOf(_, _)
LStripOf(s, cs) == IF s # <<>> /\ Head(s) \in cs THEN LStripOf(Tail(s), cs) ELSE s

RECURSIVE RStripOf(_, _)
RStripOf(s, cs) ==
  IF s # <<>> /\ s[Len(s)] \in cs THEN RStripOf(SubSeq(s, 1, Len(s) - 1), cs) ELSE s

Strip(s, cs) == RStripOf(LStripOf(s, cs), cs)

\* the texts https?://(dx\.)?doi\.org/ matches, in lower case
DoiPrefix(secure, dx) ==
  <<"h", "t", "t", "p">> \o (IF secure THEN <<"s">> ELSE <<>>) \o <<":", "/", "/">>
    \o (IF dx THEN <<"d", "x", ".">> ELSE <<>>)
    \o <<"d", "o", "i", ".", "o", "r", "g", "/">>

\* p stands at the start of s, whatever the case of the letters of s
StartsWith(s, p) ==
  Len(s) >= Len(p) /\ \A n \in 1..Len(p) : Lower(s[n]) = p[n]

\* re.sub(r'^https?://(dx\.)?doi\.org/', '', s, flags=re.I)
DropDoiPrefix(s) ==
  IF \E a, b \in BOOLEAN : StartsWith(s, DoiPrefix(a, b))
  THEN LET ab == CHOOSE ab \in BOOLEAN \X BOOLEAN : StartsWith(s, DoiPrefix(ab[1], ab[2]))
       IN SubSeq(s, Len(DoiPrefix(ab[1], ab[2])) + 1, Len(s))
  ELSE s

normalize_doi_keeps_case(s) ==
  IF s = <<>> THEN <<>>
  ELSE LET s3 == Strip(Strip(DropDoiPrefix(Strip(s, Space)), Space), {"/"})
       IN IF (\E n \in 1..Len(s3) : s3[n] = " ") \/ ~(\E n \in 1..Len(s3) : s3[n] = "/")
          THEN <<>> ELSE s3

\* utils.py normalize_doi
normalize_doi(s) ==
  IF s = <<>> THEN <<>>
  ELSE LET s1 == Strip(s, Space)
           s2 == DropDoiPrefix(s1)
           s3 == Strip(Strip(s2, Space), {"/"})
           s4 == [n \in 1..Len(s3) |-> Lower(s3[n])]
       IN IF (\E n \in 1..Len(s4) : s4[n] = " ") \/ ~(\E n \in 1..Len(s4) : s4[n] = "/")
          THEN <<>> ELSE s4

\* what the DOI candidates tried are made of: a prefix in lower and in upper
\* case, a short DOI, and single characters
DoiPieces ==
  {DoiPrefix(TRUE, FALSE),
   <<"H", "T", "T", "P", ":", "/", "/", "D", "X", ".", "D", "O", "I", ".", "O", "R",
       "G", "/">>,
   <<"1", "/", "B">>, <<"/">>, <<" ">>, <<"\t">>, <<"x">>}

\* a candidate is handed to normalize_doi
InitDoi ==
  /\ tpc = "start"
  /\ text \in {Flatten(ps) : ps \in SeqsUpTo(DoiPieces, MaxPieces)}
  /\ ret = None

ApplyNormalizeDoi ==
  /\ tpc = "start"
  /\ ret' = normalize_doi(text)
  /\ tpc' = "normalize_doi"
  /\ UNCHANGED text
  /\ UNCHANGED <<hvars, evars, dvars, cvars>>

\* --------------------------------------------------------- enrichment: values
\* rows of the input dataset: paperId (blank when the CSV cell is empty) and
\* year (None when blank)
RowInputs ==
  {[paperId |-> "p1", year |-> Some(2020)],
   [paperId |-> "p2", year |-> None],
   [paperId |-> "", year |-> Some(2019)]}

BatchSizes == {1, 2}

\* what the paper-batch endpoint returns for an id. externalIds is None or
\* the dictionary, of which DOI is the entry read; p1 has a DOI in upper case,
\* p2 one without a slash and a doi.org PDF link, the others no DOI at all
PaperOf(pid) ==
  IF pid = "p1"
  THEN [paperId |-> "p1", abstract |-> Some("abs1"), citationCount |-> Some(5),
        referenceCount |-> Some(12), authors |-> <<"a2", "a1">>,
        externalIds |-> Some([DOI |-> Some(<<"1", "0", ".", "1", "/", "A">>)]),
        openAccessPdf |-> Some(<<"H", "T", "T", "P", "S", ":", "/", "/", "d", "x", ".",
            "d", "o", "i", ".", "o", "r", "g", "/", "1", "0", ".", "2", "/", "b">>),
        journal |-> Some(<<"2", "-", "1", "2">>)]
  ELSE IF pid = "p2"
  THEN [paperId |-> pid, abstract |-> None, citationCount |-> Some(0),
        referenceCount |-> None, authors |-> <<"a4", "a2", "a1">>,
        externalIds |-> Some([DOI |-> Some(<<"n", "o", "d", "o", "i">>)]),
        openAccessPdf |-> Some(<<"h", "t", "t", "p", ":", "/", "/", "x", ".", "y", "/",
            "d", "o", "i", "?", "u", "=", "h", "t", "t", "p", "s", ":", "/", "/", "d",
            "o", "i", ".", "o", "r", "g", "/", "1", "0", ".", "3", "/", "c">>),
        journal |-> Some(<<"1", "2", "-", "2">>)]
  ELSE [paperId |-> pid, abstract |-> None, citationCount |-> Some(0),
        referenceCount |-> None, authors |-> <<"a3">>,
        externalIds |-> Some([DOI |-> None]),
        openAccessPdf |-> Some(<<"h", "t", "t", "p", ":", "/", "/", "x", ".", "y", "/",
            "p", ".", "p", "d", "f">>),
        journal |-> None]

\* the author ids the author-batch endpoint has a record for
KnownAuthors == {"a1", "a2", "a3"}

\* what the author-batch endpoint returns for an id; a3 has no integer hIndex
AuthorOf(aid) ==
  [authorId |-> aid,
   hIndex |-> IF aid = "a1" THEN Some(10) ELSE IF aid = "a2" THEN Some(4) ELSE None]

\* the author ids in sorted order
AuthorOrder == <<"a1", "a2", "a3", "a4">>

\* the items of a references response: the year of each cited paper, None
\* when it is missing or not an integer
RefResponses ==
  {<<>>, <<None>>, <<Some(2018)>>, <<Some(2019), None, Some(2025)>>}

S2Statuses == {200, 429, 500, 502, 503, 504, 404}

\* the columns enrich_extract adds, empty by default
ENRICH_COLUMNS ==
  {"abstract", "external_ids", "doi", "is_open_access", "open_access_pdf_url",
   "journal_pages_range", "pages_total", "references_pages", "references_count",
   "_max_cited_year", "authors_hindex_list", "mean_author_hindex", "citation_count"}

Min(a, b) == IF a <= b THEN a ELSE b

Chunk_overlaps(l, off, n) == SubSeq(l, off + 1, Min(off + n + 1, Len(l)))

\* ids[i:i+bs]
Chunk(l, off, n) == SubSeq(l, off + 1, Min(off + n, Len(l)))

\* [str(x) for x in df["paperId"] if x]
IdsOf(d) ==
  LET col == [n \in 1..Len(d) |-> d[n].paperId]
      keep(x) == x # ""
  IN SelectSeq(col, keep)

\* max(1, self.max_retries)
RetryCap(mr) == IF mr > 1 THEN mr ELSE 1

\* _post_json: what one attempt leads to: the data is returned ("ok"), the
\* client sleeps and loops ("retry"), or None is returned ("fail")
PostVerdict_exception_unbounded(o, att, mr) ==
  IF o.exc THEN "retry"
  ELSE IF o.status = 200 THEN "ok"
  ELSE IF o.status \in {429, 500} THEN "retry"
  ELSE IF o.status \in {502, 503}
       THEN (IF att >= RetryCap(mr) THEN "fail" ELSE "retry")
  ELSE "fail"

PostVerdict(o, att, mr) ==
  IF o.exc THEN (IF att >= RetryCap(mr) THEN "fail" ELSE "retry")
  ELSE IF o.status = 200 THEN "ok"
  ELSE IF o.status \in {429, 500} THEN "retry"
  ELSE IF o.status \in {502, 503}
       THEN (IF att >= RetryCap(mr) THEN "fail" ELSE "retry")
  ELSE "fail"

\* references_years: the same decisions for the GET of one paper's references
RefVerdict(o, att, mr) ==
  IF o.exc THEN (IF att >= RetryCap(mr) THEN "fail" ELSE "retry")
  ELSE IF o.status = 200 THEN "ok"
  ELSE IF o.status \in {429, 500} THEN "retry"
  ELSE IF o.status \in {502, 503}
       THEN (IF att >= RetryCap(mr) THEN "fail" ELSE "retry")
  ELSE "fail"

\* references_years lines 93-102: the integer years of the items
YearsOf(items) ==
  LET isInt(y) == y # None
      kept == SelectSeq(items, isInt)
  IN [n \in 1..Len(kept) |-> kept[n][1]]

RECURSIVE MaxOf(_)
MaxOf(l) ==
  IF Len(l) = 1 THEN l[1]
  ELSE LET m == MaxOf(Tail(l)) IN IF l[1] >= m THEN l[1] ELSE m

\* enrich_extract lines 201-215: the year of the first row with this paperId
CitingYear(d, pid) ==
  LET hit(r) == r.paperId = pid
      matches == SelectSeq(d, hit)
  IN IF matches = <<>> THEN None ELSE matches[1].year

MaxCited_unbounded(yrs_int, citing_year) == MaxOf(yrs_int)

\* enrich_extract lines 217-227
MaxCited(yrs_int, citing_year) ==
  IF citing_year # None
  THEN LET before(y) == y <= citing_year[1]
           yrs_before == SelectSeq(yrs_int, before)
       IN IF yrs_before # <<>> THEN MaxOf(yrs_before) ELSE citing_year[1]
  ELSE MaxOf(yrs_int)

\* max_cited_year[pid] = y
WithYear(mcy, pid, y) ==
  [q \in (DOMAIN mcy) \cup {pid} |-> IF q = pid THEN y ELSE mcy[q]]

AfterLookup_defaults_to_year(mcy, pid, years, d) ==
  IF years = <<>>
  THEN WithYear(mcy, pid, IF CitingYear(d, pid) # None THEN CitingYear(d, pid)[1] ELSE 0)
  ELSE WithYear(mcy, pid, MaxCited(years, CitingYear(d, pid)))

\* enrich_extract lines 192-227: the body of the loop for one lookup that
\* returned: nothing is stored without an integer year
AfterLookup(mcy, pid, years, d) ==
  IF years = <<>> THEN mcy
  ELSE WithYear(mcy, pid, MaxCited(years, CitingYear(d, pid)))

\* enrich_extract lines 146-163: sorted(set(author ids of the papers))
AuthorIdsOf(ps) ==
  LET used(a) == \E n \in 1..Len(ps) : \E m \in 1..Len(ps[n].authors) : ps[n].authors[m] = a
  IN SelectSeq(AuthorOrder, used)

\* the records of an author batch: one for every id the endpoint knows (the
\* entry of an unknown id is no record and is skipped, lines 175-176)
AuthorRecords(ch) ==
  LET known == SelectSeq(ch, LAMBDA a : a \in KnownAuthors)
  IN [n \in 1..Len(known) |-> AuthorOf(known[n])]

\* author_info[aid] = rec for every record of a batch
WithAuthors(info, recs) ==
  LET new == {recs[n].authorId : n \in 1..Len(recs)}
      rec(a) == CHOOSE r \in {recs[n] : n \in 1..Len(recs)} : r.authorId = a
  IN [a \in (DOMAIN info) \cup new |-> IF a \in new THEN rec(a) ELSE info[a]]

\* df[c] = v for every row
SetColumn(d, c, v) ==
  [n \in 1..Len(d) |-> [x \in (DOMAIN d[n]) \cup {c} |-> IF x = c THEN v ELSE d[n][x]]]

\* by_id.get(pid): the last paper returned with this id, None without one
ById(ps, pid) ==
  LET hit(q) == q.paperId = pid
      found == SelectSeq(ps, hit)
  IN IF found = <<>> THEN None ELSE Some(found[Len(found)])

RECURSIVE HVals_zero_when_missing(_, _)
HVals_zero_when_missing(authors, info) ==
  IF authors = <<>> THEN <<>>
  ELSE LET a == Head(authors)
           rest == HVals_zero_when_missing(Tail(authors), info)
       IN IF a \in DOMAIN info /\ info[a].hIndex # None
          THEN <<info[a].hIndex[1]>> \o rest ELSE <<0>> \o rest

\* enrich_extract lines 296-303: the integer hIndex of the authors found
RECURSIVE HVals(_, _)
HVals(authors, info) ==
  IF authors = <<>> THEN <<>>
  ELSE LET a == Head(authors)
           rest == HVals(Tail(authors), info)
       IN IF a \in DOMAIN info /\ info[a].hIndex # None
          THEN <<info[a].hIndex[1]>> \o rest ELSE rest

RECURSIVE SumOf(_)
SumOf(l) == IF l = <<>> THEN 0 ELSE Head(l) + SumOf(Tail(l))

\* re.search(r'https?://(?:dx\.)?doi\.org/([^\s]+)', url, flags=re.I): the
\* group of the leftmost match, None without a match
SearchDoiUrl(url) ==
  LET from(n) == SubSeq(url, n, Len(url))
      at(n) == {p \in {DoiPrefix(a, b) : a, b \in BOOLEAN} :
                  /\ StartsWith(from(n), p)
                  /\ Len(from(n)) > Len(p)
                  /\ from(n)[Len(p) + 1] \notin Space}
      hits == {n \in 1..Len(url) : at(n) # {}}
  IN IF hits = {} THEN None
     ELSE LET n == CHOOSE k \in hits : \A m \in hits : k <= m
              rest == SubSeq(url, n + Len(CHOOSE p \in at(n) : TRUE), Len(url))
              stop == {k \in 1..Len(rest) : rest[k] \in Space}
          IN Some(IF stop = {} THEN rest
                  ELSE SubSeq(rest, 1, (CHOOSE k \in stop : \A m \in stop : k <= m) - 1))

\* not str(out.at[i, "doi"]).strip()
Blank(cell) == Strip(cell, Space) = <<>>

DoiOf_prefers_response(doi, ext, oap) ==
  LET from_ext == IF ext # None /\ ext[1].DOI # None
                  THEN normalize_doi(ext[1].DOI[1]) ELSE <<>>
      m == IF oap # None THEN SearchDoiUrl(oap[1]) ELSE None
      from_url == IF m # None THEN normalize_doi(m[1]) ELSE <<>>
  IN IF from_ext # <<>> THEN from_ext
     ELSE IF ~Blank(doi) THEN doi
     ELSE IF from_url # <<>> THEN from_url ELSE doi

\* enrich_extract lines 251-275: the doi cell of a row once the paper's
\* externalIds (ext) and openAccessPdf url (oap) are gone through
DoiOf(doi, ext, oap) ==
  LET after_ext ==
        IF ext # None /\ Blank(doi) /\ ext[1].DOI # None
             /\ normalize_doi(ext[1].DOI[1]) # <<>>
        THEN normalize_doi(ext[1].DOI[1]) ELSE doi
      m == IF oap # None /\ Blank(after_ext) THEN SearchDoiUrl(oap[1]) ELSE None
  IN IF m # None /\ normalize_doi(m[1]) # <<>> THEN normalize_doi(m[1]) ELSE after_ext

\* enrich_extract lines 232-310 for one row: defaults, then the paper's fields
PopulateRow(row, ps, info, mcy) ==
  LET base == [c \in (DOMAIN row) \cup ENRICH_COLUMNS |->
                 IF c \in DOMAIN row THEN row[c] ELSE None]
      p == ById(ps, row.paperId)
  IN IF p = None THEN base
     ELSE LET hv == HVals(p[1].authors, info) IN
          [c \in DOMAIN base |->
             IF c = "abstract" /\ p[1].abstract # None THEN p[1].abstract
             ELSE IF c = "references_count" /\ p[1].referenceCount # None
               THEN p[1].referenceCount
             ELSE IF c = "citation_count" /\ p[1].citationCount # None
               THEN p[1].citationCount
             ELSE IF c = "authors_hindex_list" /\ hv # <<>> THEN Some(hv)
             ELSE IF c = "mean_author_hindex" /\ hv # <<>>
               THEN Some([sum |-> SumOf(hv), n |-> Len(hv)])
             ELSE IF c = "_max_cited_year" /\ row.paperId \in DOMAIN mcy
               THEN Some(mcy[row.paperId])
             ELSE IF c = "external_ids" /\ p[1].externalIds # None
               THEN p[1].externalIds
             ELSE IF c = "doi" THEN DoiOf(base.doi, p[1].externalIds, p[1].openAccessPdf)
             ELSE IF c = "open_access_pdf_url" /\ p[1].openAccessPdf # None
               THEN p[1].openAccessPdf[1]
             ELSE IF c = "journal_pages_range" /\ p[1].journal # None
               THEN p[1].journal[1]
             ELSE IF c = "pages_total" /\ p[1].journal # None
                       /\ pages_total(p[1].journal[1]) # None
               THEN pages_total(p[1].journal[1])
             ELSE base[c]]

AbortResult_keeps_paper_fields(d, ps) ==
  SetColumn([n \in 1..Len(d) |-> PopulateRow(d[n], ps, <<>>, <<>>)], "s2_enriched", FALSE)

\* enrich_extract lines 140-141 and 170-171: the input, flagged unenriched
\* (ps: the papers fetched so far, which the code does not use here)
AbortResult(d, ps) == SetColumn(d, "s2_enriched", FALSE)

\* enrich_extract lines 230-312: the enriched copy
Populate(d, ps, info, mcy) ==
  SetColumn([n \in 1..Len(d) |-> PopulateRow(d[n], ps, info, mcy)], "s2_enriched", TRUE)

\* enrich_extract lines 315-323
RunSummary(d, out, l) ==
  [records_in |-> Len(d), records_out |-> Len(out),
   paper_ids_requested |-> Len(l),
   paper_ids_unique |-> Cardinality({l[n] : n \in 1..Len(l)})]

\* -------------------------------------------------------- enrichment: actions
\* enrich_extract lines 126-133, for every dataset and configuration
InitEnrich ==
  /\ df \in SeqsUpTo(RowInputs, MaxRows)
  /\ batch_size \in BatchSizes
  /\ max_retries \in 0..MaxRetriesCfg
  /\ ids = IdsOf(df)
  /\ epc = "papers"
  /\ batch_i = 0
  /\ papers = <<>>
  /\ author_ids = <<>>
  /\ author_j = 0
  /\ author_info = <<>>
  /\ ref_k = 1
  /\ max_cited_year = <<>>
  /\ attempt = 0
  /\ eoutcome = NoOutcome
  /\ result = None
  /\ run_json = None
  /\ run_attempted = FALSE
  /\ ref_failed = {}
  /\ ref_found = {}
  /\ ref_done = 0
  /\ yrs = None
  /\ ref_empty = {}
  /\ sheet = None
  /\ posted = NoPosts

\* the outcomes of one request: a retriable one only while the request has
\* been tried fewer than MaxAttempts - 1 times
Outcomes(att) ==
  {[exc |-> FALSE, status |-> st] :
     st \in IF att + 1 < MaxAttempts THEN S2Statuses ELSE {200, 404, 504}}
  \cup (IF att + 1 < MaxAttempts THEN {[exc |-> TRUE, status |-> 0]} ELSE {})

\* enrich_extract lines 136-138: the next paper batch is posted
BeginPaperBatch ==
  /\ epc = "papers"
  /\ batch_i < Len(ids)
  /\ attempt' = 0
  /\ posted' = [posted EXCEPT !.papers = Append(@, Chunk(ids, batch_i, batch_size))]
  /\ epc' = "post_paper"
  /\ UNCHANGED <<df, batch_size, max_retries, ids, batch_i, papers, author_ids,
                 author_j, author_info, ref_k, max_cited_year, eoutcome, result,
                 run_json, run_attempted, ref_failed, ref_found, ref_done,
                 yrs, ref_empty, sheet>>
  /\ UNCHANGED <<hvars, tvars, dvars, cvars>>

\* enrich_extract lines 144-163: all paper batches are in
PapersDone ==
  /\ epc = "papers"
  /\ batch_i >= Len(ids)
  /\ author_ids' = AuthorIdsOf(papers)
  /\ author_j' = 0
  /\ epc' = "authors"
  /\ UNCHANGED <<df, batch_size, max_retries, ids, batch_i, papers, author_info,
                 ref_k, max_cited_year, attempt, eoutcome, result, run_json,
                 run_attempted, ref_failed, ref_found, ref_done,
                 yrs, ref_empty, sheet, posted>>
  /\ UNCHANGED <<hvars, tvars, dvars, cvars>>

\* _post_json returns the data of a paper batch; lines 68-70, 142
PostPaperOk ==
  /\ epc = "post_paper"
  /\ \E o \in Outcomes(attempt) :
       /\ PostVerdict(o, attempt + 1, max_retries) = "ok"
       /\ eoutcome' = o
  /\ attempt' = attempt + 1
  /\ LET ch == Chunk(ids, batch_i, batch_size) IN
       papers' = papers \o [n \in 1..Len(ch) |-> PaperOf(ch[n])]
  /\ batch_i' = batch_i + batch_size
  /\ epc' = "papers"
  /\ UNCHANGED <<df, batch_size, max_retries, ids, author_ids, author_j,
                 author_info, ref_k, max_cited_year, result, run_json,
                 run_attempted, ref_failed, ref_found, ref_done,
                 yrs, ref_empty, sheet, posted>>
  /\ UNCHANGED <<hvars, tvars, dvars, cvars>>

\* _post_json returns the data of an author batch; lines 77-79, 172-185
PostAuthorOk ==
  /\ epc = "post_author"
  /\ \E o \in Outcomes(attempt) :
       /\ PostVerdict(o, attempt + 1, max_retries) = "ok"
       /\ eoutcome' = o
  /\ attempt' = attempt + 1
  /\ LET ch == Chunk(author_ids, author_j, batch_size) IN
       author_info' = WithAuthors(author_info, AuthorRecords(ch))
  /\ author_j' = author_j + batch_size
  /\ epc' = "authors"
  /\ UNCHANGED <<df, batch_size, max_retries, ids, batch_i, papers, author_ids,
                 ref_k, max_cited_year, result, run_json, run_attempted,
                 ref_failed, ref_found, ref_done,
                 yrs, ref_empty, sheet, posted>>
  /\ UNCHANGED <<hvars, tvars, dvars, cvars>>

\* _post_json logs and sleeps before the next attempt
PostRetry ==
  /\ epc \in {"post_paper", "post_author"}
  /\ \E o \in Outcomes(attempt) :
       /\ PostVerdict(o, attempt + 1, max_retries) = "retry"
       /\ eoutcome' = o
  /\ attempt' = attempt + 1
  /\ epc' = IF epc = "post_paper" THEN "sleep_paper" ELSE "sleep_author"
  /\ UNCHANGED <<df, batch_size, max_retries, ids, batch_i, papers, author_ids,
                 author_j, author_info, ref_k, max_cited_year, result, run_json,
                 run_attempted, ref_failed, ref_found, ref_done,
                 yrs, ref_empty, sheet, posted>>
  /\ UNCHANGED <<hvars, tvars, dvars, cvars>>

\* time.sleep(self.sleep_s), then the loop of _post_json goes round
PostSleep ==
  /\ epc \in {"sleep_paper", "sleep_author"}
  /\ epc' = IF epc = "sleep_paper" THEN "post_paper" ELSE "post_author"
  /\ UNCHANGED <<df, batch_size, max_retries, ids, batch_i, papers, author_ids,
                 author_j, author_info, ref_k, max_cited_year, attempt, eoutcome,
                 result, run_json, run_attempted, ref_failed, ref_found, ref_done,
                 yrs, ref_empty, sheet, posted>>
  /\ UNCHANGED <<hvars, tvars, dvars, cvars>>

PostFail_goes_on ==
  /\ epc \in {"post_paper", "post_author"}
  /\ \E o \in Outcomes(attempt) :
       /\ PostVerdict(o, attempt + 1, max_retries) = "fail"
       /\ eoutcome' = o
  /\ attempt' = attempt + 1
  /\ batch_i' = IF epc = "post_paper" THEN batch_i + batch_size ELSE batch_i
  /\ author_j' = IF epc = "post_author" THEN author_j + batch_size ELSE author_j
  /\ epc' = IF epc = "post_paper" THEN "papers" ELSE "authors"
  /\ UNCHANGED <<df, batch_size, max_retries, ids, papers, author_ids,
                 author_info, ref_k, max_cited_year, result, run_json,
                 run_attempted, ref_failed, ref_found, ref_done,
                 yrs, ref_empty, sheet, posted>>
  /\ UNCHANGED <<hvars, tvars, dvars, cvars>>

\* _post_json returns None: enrich_extract lines 139-141 and 169-171
PostFail ==
  /\ epc \in {"post_paper", "post_author"}
  /\ \E o \in Outcomes(attempt) :
       /\ PostVerdict(o, attempt + 1, max_retries) = "fail"
       /\ eoutcome' = o
  /\ attempt' = attempt + 1
  /\ result' = Some(AbortResult(df, papers))
  /\ epc' = "aborted"
  /\ UNCHANGED <<df, batch_size, max_retries, ids, batch_i, papers, author_ids,
                 author_j, author_info, ref_k, max_cited_year, run_json,
                 run_attempted, ref_failed, ref_found, ref_done,
                 yrs, ref_empty, sheet, posted>>
  /\ UNCHANGED <<hvars, tvars, dvars, cvars>>

\* enrich_extract lines 166-168: the next author batch is posted
BeginAuthorBatch ==
  /\ epc = "authors"
  /\ author_j < Len(author_ids)
  /\ attempt' = 0
  /\ posted' = [posted EXCEPT !.authors = Append(@, Chunk(author_ids, author_j, batch_size))]
  /\ epc' = "post_author"
  /\ UNCHANGED <<df, batch_size, max_retries, ids, batch_i, papers, author_ids,
                 author_j, author_info, ref_k, max_cited_year, eoutcome, result,
                 run_json, run_attempted, ref_failed, ref_found, ref_done,
                 yrs, ref_empty, sheet>>
  /\ UNCHANGED <<hvars, tvars, dvars, cvars>>

\* enrich_extract line 189: all author batches are in
AuthorsDone ==
  /\ epc = "authors"
  /\ author_j >= Len(author_ids)
  /\ ref_k' = 1
  /\ max_cited_year' = <<>>
  /\ epc' = "refs"
  /\ UNCHANGED <<df, batch_size, max_retries, ids, batch_i, papers, author_ids,
                 author_j, author_info, attempt, eoutcome, result, run_json,
                 run_attempted, ref_failed, ref_found, ref_done,
                 yrs, ref_empty, sheet, posted>>
  /\ UNCHANGED <<hvars, tvars, dvars, cvars>>

\* enrich_extract lines 190-191: the references of the next id are looked up
BeginRef ==
  /\ epc = "refs"
  /\ ref_k <= Len(ids)
  /\ attempt' = 0
  /\ epc' = "get_ref"
  /\ UNCHANGED <<df, batch_size, max_retries, ids, batch_i, papers, author_ids,
                 author_j, author_info, ref_k, max_cited_year, eoutcome, result,
                 run_json, run_attempted, ref_failed, ref_found, ref_done,
                 yrs, ref_empty, sheet, posted>>
  /\ UNCHANGED <<hvars, tvars, dvars, cvars>>

\* references_years returns the years; enrich_extract lines 192-227
RefOk ==
  /\ epc = "get_ref"
  /\ \E o \in Outcomes(attempt), items \in RefResponses :
       /\ RefVerdict(o, attempt + 1, max_retries) = "ok"
       /\ eoutcome' = o
       /\ LET years == YearsOf(items)
              pid == ids[ref_k]
          IN /\ yrs' = Some(years)
             /\ max_cited_year' = AfterLookup(max_cited_year, pid, years, df)
             /\ ref_found' = IF years = <<>> THEN ref_found ELSE ref_found \cup {pid}
             /\ ref_empty' = IF years = <<>> THEN ref_empty \cup {pid} ELSE ref_empty
  /\ attempt' = attempt + 1
  /\ ref_k' = ref_k + 1
  /\ ref_done' = ref_done + 1
  /\ epc' = "refs"
  /\ UNCHANGED <<df, batch_size, max_retries, ids, batch_i, papers, author_ids,
                 author_j, author_info, result, run_json, run_attempted, ref_failed,
                 sheet, posted>>
  /\ UNCHANGED <<hvars, tvars, dvars, cvars>>

\* references_years logs and sleeps before the next attempt
RefRetry ==
  /\ epc = "get_ref"
  /\ \E o \in Outcomes(attempt) :
       /\ RefVerdict(o, attempt + 1, max_retries) = "retry"
       /\ eoutcome' = o
  /\ attempt' = attempt + 1
  /\ epc' = "sleep_ref"
  /\ UNCHANGED <<df, batch_size, max_retries, ids, batch_i, papers, author_ids,
                 author_j, author_info, ref_k, max_cited_year, result, run_json,
                 run_attempted, ref_failed, ref_found, ref_done,
                 yrs, ref_empty, sheet, posted>>
  /\ UNCHANGED <<hvars, tvars, dvars, cvars>>

RefSleep ==
  /\ epc = "sleep_ref"
  /\ epc' = "get_ref"
  /\ UNCHANGED <<df, batch_size, max_retries, ids, batch_i, papers, author_ids,
                 author_j, author_info, ref_k, max_cited_year, attempt, eoutcome,
                 result, run_json, run_attempted, ref_failed, ref_found, ref_done,
                 yrs, ref_empty, sheet, posted>>
  /\ UNCHANGED <<hvars, tvars, dvars, cvars>>

RefFail_aborts ==
  /\ epc = "get_ref"
  /\ \E o \in Outcomes(attempt) :
       /\ RefVerdict(o, attempt + 1, max_retries) = "fail"
       /\ eoutcome' = o
  /\ attempt' = attempt + 1
  /\ ref_failed' = ref_failed \cup {ids[ref_k]}
  /\ yrs' = None
  /\ result' = Some(AbortResult(df, papers))
  /\ epc' = "aborted"
  /\ UNCHANGED <<df, batch_size, max_retries, ids, batch_i, papers, author_ids,
                 author_j, author_info, ref_k, max_cited_year, run_json,
                 run_attempted, ref_found, ref_done, ref_empty, sheet, posted>>
  /\ UNCHANGED <<hvars, tvars, dvars, cvars>>

\* references_years returns None; enrich_extract lines 192-193 skip the paper
RefFail ==
  /\ epc = "get_ref"
  /\ \E o \in Outcomes(attempt) :
       /\ RefVerdict(o, attempt + 1, max_retries) = "fail"
       /\ eoutcome' = o
  /\ attempt' = attempt + 1
  /\ ref_failed' = ref_failed \cup {ids[ref_k]}
  /\ yrs' = None
  /\ ref_k' = ref_k + 1
  /\ ref_done' = ref_done + 1
  /\ epc' = "refs"
  /\ UNCHANGED <<df, batch_size, max_retries, ids, batch_i, papers, author_ids,
                 author_j, author_info, max_cited_year, result, run_json,
                 run_attempted, ref_found, ref_empty, sheet, posted>>
  /\ UNCHANGED <<hvars, tvars, dvars, cvars>>

\* enrich_extract lines 230-312: the enriched copy is built
PopulateOut ==
  /\ epc = "refs"
  /\ ref_k > Len(ids)
  /\ result' = Some(Populate(df, papers, author_info, max_cited_year))
  /\ epc' = "write_run"
  /\ UNCHANGED <<df, batch_size, max_retries, ids, batch_i, papers, author_ids,
                 author_j, author_info, ref_k, max_cited_year, attempt, eoutcome,
                 run_json, run_attempted, ref_failed, ref_found, ref_done,
                 yrs, ref_empty, sheet, posted>>
  /\ UNCHANGED <<hvars, tvars, dvars, cvars>>

\* enrich_extract lines 314-333: run.json is written unless the write fails,
\* which is swallowed; the copy is returned
WriteRun ==
  /\ epc = "write_run"
  /\ run_attempted' = TRUE
  /\ \E written \in BOOLEAN :
       run_json' = IF written THEN Some(RunSummary(df, result[1], ids)) ELSE None
  /\ epc' = "returned"
  /\ UNCHANGED <<df, batch_size, max_retries, ids, batch_i, papers, author_ids,
                 author_j, author_info, ref_k, max_cited_year, attempt, eoutcome,
                 result, ref_failed, ref_found, ref_done,
                 yrs, ref_empty, sheet, posted>>
  /\ UNCHANGED <<hvars, tvars, dvars, cvars>>

NextEnrich ==
  \/ BeginPaperBatch
  \/ PapersDone
  \/ PostPaperOk
  \/ PostAuthorOk
  \/ PostRetry
  \/ PostSleep
  \/ PostFail
  \/ BeginAuthorBatch
  \/ AuthorsDone
  \/ BeginRef
  \/ RefOk
  \/ RefRetry
  \/ RefSleep
  \/ RefFail
  \/ PopulateOut
  \/ WriteRun

\* the harvest is a separate run: run_mode stays at its start
InitEnrichRun == InitHarvest /\ InitEnrich /\ TextIdle /\ DownloadIdle /\ CollectIdle

SpecEnrich == InitEnrichRun /\ [][NextEnrich]_vars

\* ------------------------------------------- enrichment of a dataset with DOIs
\* rows of a dataset with a doi column: a paperId in two rows with different
\* years, a blank, a whitespace-only and a filled doi
DeriveRows ==
  {[paperId |-> "p1", year |-> Some(2020), doi |-> <<>>],
   [paperId |-> "p1", year |-> Some(2018), doi |-> <<"1", "0", ".", "9", "/", "k">>],
   [paperId |-> "p2", year |-> None, doi |-> <<" ">>],
   [paperId |-> "p3", year |-> Some(2019), doi |-> <<>>]}

\* enrich_extract lines 126-133 for these datasets, two ids per batch and
\* max_retries 0
InitDerive ==
  /\ df \in SeqsUpTo(DeriveRows, MaxRows)
  /\ batch_size = 2
  /\ max_retries = 0
  /\ ids = IdsOf(df)
  /\ epc = "papers"
  /\ batch_i = 0
  /\ papers = <<>>
  /\ author_ids = <<>>
  /\ author_j = 0
  /\ author_info = <<>>
  /\ ref_k = 1
  /\ max_cited_year = <<>>
  /\ attempt = 0
  /\ eoutcome = NoOutcome
  /\ result = None
  /\ run_json = None
  /\ run_attempted = FALSE
  /\ ref_failed = {}
  /\ ref_found = {}
  /\ ref_done = 0
  /\ yrs = None
  /\ ref_empty = {}
  /\ sheet = None
  /\ posted = NoPosts

InitDeriveRun == InitHarvest /\ InitDerive /\ TextIdle /\ DownloadIdle /\ CollectIdle

SpecDerive == InitDeriveRun /\ [][NextEnrich]_vars

EnrichTypeOK ==
  /\ epc \in {"papers", "post_paper", "sleep_paper", "authors", "post_author",
              "sleep_author", "refs", "get_ref", "sleep_ref", "write_run", "returned",
              "aborted"}
  /\ attempt \in 0..MaxAttempts

\* ------------------------------------------------ enrichment, then the export
\* export.py DATA_COLUMNS
DATA_COLUMNS ==
  <<"mode", "paperId", "title", "publication_date", "year", "publication_types",
    "fields_of_study", "influential_citation_count", "citation_count", "abstract",
    "external_ids", "doi", "is_open_access", "open_access_pdf_url",
    "journal_pages_range", "pages_total", "references_pages", "references_count",
    "_max_cited_year", "authors_hindex_list", "mean_author_hindex", "_prov_csv_row",
    "_mode_display">>

export_extracted_keeps_extras(d) ==
  LET extras == IF d = <<>> THEN <<>> ELSE <<"s2_enriched">>
      cols == DATA_COLUMNS \o extras
  IN [enriched |-> d,
      columns |-> cols,
      rows |-> [n \in 1..Len(d) |->
                  [k \in 1..Len(cols) |->
                     IF cols[k] \in DOMAIN d[n] THEN d[n][cols[k]] ELSE None]]]

\* export.py export_extracted: the frame handed in once the missing schema
\* columns are added to it, and the sheet written: its header and its rows
export_extracted(d) ==
  LET schema == {DATA_COLUMNS[k] : k \in 1..Len(DATA_COLUMNS)}
      filled == [n \in 1..Len(d) |->
                   [c \in (DOMAIN d[n]) \cup schema |->
                      IF c \in DOMAIN d[n] THEN d[n][c] ELSE None]]
  IN [enriched |-> filled,
      columns |-> DATA_COLUMNS,
      rows |-> [n \in 1..Len(d) |->
                  [k \in 1..Len(DATA_COLUMNS) |-> filled[n][DATA_COLUMNS[k]]]]]

\* select_papers.main line 70: the dataset enrich_extract returned is exported
Export ==
  /\ epc \in {"returned", "aborted"}
  /\ sheet = None
  /\ sheet' = Some(export_extracted(result[1]))
  /\ UNCHANGED <<epc, df, batch_size, max_retries, ids, batch_i, papers, author_ids,
                 author_j, author_info, ref_k, max_cited_year, attempt, eoutcome,
                 result, run_json, run_attempted, ref_failed, ref_found, ref_done,
                 yrs, ref_empty, posted>>
  /\ UNCHANGED <<hvars, tvars, dvars, cvars>>

\* select_papers.main lines 68-70
NextSelect ==
  \/ NextEnrich
  \/ Export

SpecSelect == InitDeriveRun /\ [][NextSelect]_vars

\* ------------------------------------------------------------- downloads
\* rows of the spreadsheet: a paperId in two rows, a second paper, a row
\* without paperId and one without a usable URL
DlRows ==
  {[paperId |-> "p1", url |-> "u1"],
   [paperId |-> "p1", url |-> "u2"],
   [paperId |-> "p2", url |-> "u1"],
   [paperId |-> "", url |-> "u1"],
   [paperId |-> "p3", url |-> "None"]}

WorkerCounts == {1, 2}

\* url.lower() in {"nan", "none", ""}, for the URLs of the model
InvalidUrls == {"", "None"}

\* f"<row-{idx}>" for the 0-based index of a row
RowName(idx) == <<"<row-0>", "<row-1>", "<row-2>", "<row-3>">>[idx + 1]

\* paper_id if paper_id else f"<row-{idx}>"
Identifier(pid, idx) == IF pid # "" THEN pid ELSE RowName(idx)

\* out_dir / f"{paper_id}.pdf" if paper_id else out_dir / f"row-{idx}.pdf"
OutPath(t) == IF t.pid # "" THEN <<t.pid, ".pdf">> ELSE <<RowName(t.idx), ".pdf">>

\* the paths of the output directory the model looks at
Paths == {<<"p1", ".pdf">>, <<"p2", ".pdf">>}

\* download_papers lines 546-562: the rows that become tasks, in row order
RECURSIVE TasksOf(_, _)
TasksOf(rows, idx) ==
  IF rows = <<>> THEN <<>>
  ELSE LET r == Head(rows)
           rest == TasksOf(Tail(rows), idx + 1)
       IN IF r.paperId = "" \/ r.url \in InvalidUrls THEN rest
          ELSE <<[idx |-> idx, pid |-> r.paperId, url |-> r.url]>> \o rest

\* a failure record (identifier, url, reason); the reason is a text and what
\* it ends with
Failure(id, url, txt, about) ==
  [identifier |-> id, url |-> url, reason |-> [text |-> txt, about |-> about]]

\* download_papers lines 546-562: the rows filtered out, in row order
RECURSIVE FilteredOf(_, _)
FilteredOf(rows, idx) ==
  IF rows = <<>> THEN <<>>
  ELSE LET r == Head(rows)
           rest == FilteredOf(Tail(rows), idx + 1)
       IN IF r.paperId = ""
          THEN <<Failure(RowName(idx), r.url, "empty paperId", "")>> \o rest
          ELSE IF r.url \in InvalidUrls
          THEN <<Failure(r.paperId, r.url, "missing/invalid URL", "")>> \o rest
          ELSE rest

\* a task waiting in the pool
Queued == [pc |-> "queued", attempt |-> 0, last |-> "none", orphan |-> FALSE,
           result |-> None]

\* _download_task returns: Some(None) for success, Some(reason) for a failure
Finished(j, r) ==
  [j EXCEPT !.pc = "done", !.attempt = 0, !.last = "none", !.orphan = FALSE,
            !.result = Some(r)]

\* the spreadsheet, the pool size and the output directory of a run: empty,
\* or with the file of p1 left by an earlier run
InitDownload ==
  /\ mpc = "prepare"
  /\ table \in SeqsUpTo(DlRows, MaxItems)
  /\ workers \in WorkerCounts
  /\ tasks = <<>>
  /\ job = <<>>
  /\ out_dir \in {[p \in Paths |-> "absent"],
                  [p \in Paths |-> IF p = <<"p1", ".pdf">> THEN "pdf" ELSE "absent"]}
  /\ failures = <<>>
  /\ collected = {}

\* download_papers lines 546-571: the tasks are built and submitted, or the
\* failures returned when there is no task
Prepare ==
  /\ mpc = "prepare"
  /\ tasks' = TasksOf(table, 0)
  /\ failures' = FilteredOf(table, 0)
  /\ job' = [t \in 1..Len(tasks') |-> Queued]
  /\ mpc' = IF tasks' = <<>> THEN "returned" ELSE "pool"
  /\ UNCHANGED <<table, workers, out_dir, collected>>
  /\ UNCHANGED <<hvars, evars, tvars, cvars>>

\* the tasks a thread is running
Running == {t \in 1..Len(job) : job[t].pc \notin {"queued", "done"}}

\* a free thread takes the next task; _download_task lines 490-496
StartTask ==
  /\ mpc = "pool"
  /\ Cardinality(Running) < workers
  /\ \E t \in 1..Len(job) :
       /\ job[t].pc = "queued"
       /\ \A u \in 1..(t - 1) : job[u].pc # "queued"
       /\ job' = [job EXCEPT ![t] =
                    IF out_dir[OutPath(tasks[t])] = "pdf"
                    THEN Finished(@, None)
                    ELSE [@ EXCEPT !.pc = "stream", !.attempt = 1]]
  /\ UNCHANGED <<mpc, table, workers, tasks, out_dir, failures, collected>>
  /\ UNCHANGED <<hvars, evars, tvars, cvars>>

AttemptFailed_gives_up(j, out) == [j EXCEPT !.pc = "fallback", !.last = out]

\* download_single: an attempt failed; the loop goes on, or is left after
\* MAX_RETRIES attempts and None is returned
AttemptFailed(j, out) ==
  IF j.attempt < MAX_RETRIES
  THEN [j EXCEPT !.pc = "stream", !.attempt = @ + 1, !.last = out]
  ELSE [j EXCEPT !.pc = "fallback", !.last = out]

\* download_single lines 326-350: the streaming GET of an attempt raises
\* (timeout, HTTP 503, 429), shows something else than a PDF, or a PDF
GetStream ==
  /\ mpc = "pool"
  /\ \E t \in 1..Len(job), out \in {"error", "nonpdf", "pdf"} :
       /\ job[t].pc = "stream"
       /\ job' = [job EXCEPT ![t] =
                    IF out = "pdf" THEN [@ EXCEPT !.pc = "full", !.last = out]
                    ELSE AttemptFailed(@, out)]
  /\ UNCHANGED <<mpc, table, workers, tasks, out_dir, failures, collected>>
  /\ UNCHANGED <<hvars, evars, tvars, cvars>>

\* download_single lines 353-373: the full GET of the attempt; its response is
\* returned when it starts with the PDF magic bytes
GetFull ==
  /\ mpc = "pool"
  /\ \E t \in 1..Len(job), out \in {"error", "nonpdf", "pdf"} :
       /\ job[t].pc = "full"
       /\ job' = [job EXCEPT ![t] =
                    IF out = "pdf" THEN [@ EXCEPT !.pc = "open", !.last = out]
                    ELSE AttemptFailed(@, out)]
  /\ UNCHANGED <<mpc, table, workers, tasks, out_dir, failures, collected>>
  /\ UNCHANGED <<hvars, evars, tvars, cvars>>

\* _download_task lines 503-510 and save_bytes_to_file lines 437-444: the
\* browser fallback yields nothing, bytes that are no PDF, a PDF, or raises
Fallback ==
  /\ mpc = "pool"
  /\ \E t \in 1..Len(job), out \in {"none", "junk", "pdf", "raises"} :
       /\ job[t].pc = "fallback"
       /\ job' = [job EXCEPT ![t] =
            IF out = "none"
            THEN Finished(@, Some([text |-> "download failed (all retries) for",
                                   about |-> tasks[t].url]))
            ELSE IF out = "junk"
            THEN Finished(@, Some([text |-> "save_failed_or_invalid_pdf for",
                                   about |-> OutPath(tasks[t])]))
            ELSE IF out = "raises"
            THEN Finished(@, Some([text |-> "unexpected_error:", about |-> ""]))
            ELSE [@ EXCEPT !.pc = "open", !.attempt = 0, !.last = "browser"]]
  /\ UNCHANGED <<mpc, table, workers, tasks, out_dir, failures, collected>>
  /\ UNCHANGED <<hvars, evars, tvars, cvars>>

\* path.unlink(): the name is gone, and what a thread that holds the file
\* open writes from now on is lost
Unlinked(jobs, t, p) ==
  [u \in 1..Len(jobs) |->
     IF u # t /\ OutPath(tasks[u]) = p /\ jobs[u].pc = "write"
     THEN [jobs[u] EXCEPT !.orphan = TRUE] ELSE jobs[u]]

\* save_response_to_file / save_bytes_to_file: path.open("wb") creates or
\* empties the file; when it raises, the file is removed if there is one
OpenFile ==
  /\ mpc = "pool"
  /\ \E t \in 1..Len(job), ok \in BOOLEAN :
       /\ job[t].pc = "open"
       /\ LET p == OutPath(tasks[t]) IN
            IF ok
            THEN /\ out_dir' = [out_dir EXCEPT ![p] = "empty"]
                 /\ job' = [job EXCEPT ![t].pc = "write"]
            ELSE /\ out_dir' = [out_dir EXCEPT ![p] = "absent"]
                 /\ job' = [Unlinked(job, t, p) EXCEPT ![t] =
                      Finished(@, Some([text |-> "save_failed_or_invalid_pdf for",
                                        about |-> p]))]
  /\ UNCHANGED <<mpc, table, workers, tasks, failures, collected>>
  /\ UNCHANGED <<hvars, evars, tvars, cvars>>

\* the content is written and the file closed
WriteFile ==
  /\ mpc = "pool"
  /\ \E t \in 1..Len(job) :
       /\ job[t].pc = "write"
       /\ out_dir' = IF job[t].orphan THEN out_dir
                     ELSE [out_dir EXCEPT ![OutPath(tasks[t])] = "pdf"]
       /\ job' = [job EXCEPT ![t].pc = "check", ![t].orphan = FALSE]
  /\ UNCHANGED <<mpc, table, workers, tasks, failures, collected>>
  /\ UNCHANGED <<hvars, evars, tvars, cvars>>

\* the head of the saved file is read back: a file that does not start with
\* the magic bytes is removed and the save fails; a file that cannot be read
\* counts as saved
CheckFile ==
  /\ mpc = "pool"
  /\ \E t \in 1..Len(job) :
       /\ job[t].pc = "check"
       /\ LET p == OutPath(tasks[t]) IN
            IF out_dir[p] = "empty"
            THEN /\ out_dir' = [out_dir EXCEPT ![p] = "absent"]
                 /\ job' = [Unlinked(job, t, p) EXCEPT ![t] =
                      Finished(@, Some([text |-> "save_failed_or_invalid_pdf for",
                                        about |-> p]))]
            ELSE /\ out_dir' = out_dir
                 /\ job' = [job EXCEPT ![t] = Finished(@, None)]
  /\ UNCHANGED <<mpc, table, workers, tasks, failures, collected>>
  /\ UNCHANGED <<hvars, evars, tvars, cvars>>

\* download_papers lines 575-583: the result of a completed task is taken
Collect ==
  /\ mpc = "pool"
  /\ \E t \in 1..Len(job) :
       /\ job[t].pc = "done"
       /\ t \notin collected
       /\ collected' = collected \cup {t}
       /\ failures' =
            IF job[t].result[1] = None THEN failures
            ELSE Append(failures,
                        [identifier |-> Identifier(tasks[t].pid, tasks[t].idx),
                         url |-> tasks[t].url, reason |-> job[t].result[1][1]])
  /\ UNCHANGED <<mpc, table, workers, tasks, job, out_dir>>
  /\ UNCHANGED <<hvars, evars, tvars, cvars>>

\* download_papers line 584
ReturnFailures ==
  /\ mpc = "pool"
  /\ collected = 1..Len(tasks)
  /\ mpc' = "returned"
  /\ UNCHANGED <<table, workers, tasks, job, out_dir, failures, collected>>
  /\ UNCHANGED <<hvars, evars, tvars, cvars>>

NextDownload ==
  \/ Prepare
  \/ StartTask
  \/ GetStream
  \/ GetFull
  \/ Fallback
  \/ OpenFile
  \/ WriteFile
  \/ CheckFile
  \/ Collect
  \/ ReturnFailures

InitDownloadRun == InitHarvest /\ EnrichIdle /\ TextIdle /\ InitDownload /\ CollectIdle

SpecDownload == InitDownloadRun /\ [][NextDownload]_vars

DownloadTypeOK ==
  /\ mpc \in {"prepare", "pool", "returned"}
  /\ \A t \in 1..Len(job) : job[t].attempt \in 0..MAX_RETRIES
  /\ Cardinality(Running) <= workers

\* ------------------------------------------------------ unified collection
\* the two collection modes, in the order main runs their scripts
Modes == <<"broad", "precise">>

\* the file names of the model, in sorted order
SortedNames ==
  <<"broad-bulk-p01.json", "broad-bulk-raw.json", "broad.csv", "c.txt",
    "harvest_ledger.json", "i.txt", "ledger_broad.json",
    "ledger_precise.json", "precise-bulk-p01.json", "precise-bulk-raw.json",
    "precise.csv">>

\* how a collection script ends: all pages fetched, stopped early after a
\* terminal HTTP error, or died with an exception
ScriptEnds == {"complete", "stopped", "crashed"}

ExitCode_stop_is_fatal(end) == IF end = "complete" THEN 0 ELSE 1

\* the exit code of a collection script: run_mode leaves its loop with a note
\* after a terminal HTTP error and main still writes the ledger
ExitCode(end) == IF end = "crashed" THEN 1 ELSE 0

\* the directory a script puts its merged file in
MergedDir(mode) == IF mode = "broad" THEN "raw" ELSE "intermediate"

\* the files a script that ran to its end has written
FilesOf(mode) ==
  IF mode = "broad"
  THEN {<<"raw", "broad-bulk-p01.json">>, <<"raw", "broad-bulk-raw.json">>,
        <<"CSVs", "broad.csv">>, <<"logs", "ledger_broad.json">>}
  ELSE {<<"raw", "precise-bulk-p01.json">>,
        <<"intermediate", "precise-bulk-raw.json">>,
        <<"CSVs", "precise.csv">>, <<"logs", "ledger_precise.json">>}

\* the ledger entry of a mode: mode_tag.upper(), and the note of an early stop
ModeLedger(mode, end) ==
  [mode |-> IF mode = "broad" THEN "BROAD" ELSE "PRECISE",
   notes |-> IF end = "stopped" THEN <<"HTTP error; aborted">> ELSE <<>>]

\* sorted(p for p in src.rglob("*") if p.is_file())
Listing(src) ==
  LET here == SelectSeq(SortedNames, LAMBDA n : <<src, n>> \in disk)
  IN [n \in 1..Len(here) |-> <<src, here[n]>>]

\* collect_artifacts: the files of every source that is a directory
RECURSIVE collect_artifacts(_)
collect_artifacts(sources) ==
  IF sources = <<>> THEN <<>>
  ELSE LET src == Head(sources)
           rest == collect_artifacts(Tail(sources))
       IN IF src \notin dirs THEN rest ELSE Listing(src) \o rest

\* main lines 121-123
ArtifactSources ==
  <<"raw", "CSVs", "logs">>
    \o (IF converted_dir # None THEN <<converted_dir[1]>> ELSE <<>>)

\* the tree under BASE before a run: an intermediate directory, a converted
\* directory (the default one, or the one --converted-dir names) may be
\* there, with a file or empty
InitCollect ==
  /\ cpc = "start"
  /\ converted_arg \in {None, Some("alt")}
  /\ \E present \in SUBSET {"intermediate", "converted", "alt"},
        filled \in SUBSET {"intermediate", "converted", "alt"} :
       /\ dirs = present
       /\ disk = {<<d, IF d = "intermediate" THEN "i.txt" ELSE "c.txt">> :
                    d \in present \cap filled}
  /\ converted_dir = None
  /\ run_calls = <<>>
  /\ ledger_files = [m \in {"broad", "precise"} |-> None]
  /\ unified = None
  /\ artifacts = None

\* main lines 88-98: the output directories are resolved (and made), the
\* converted directory is only looked for
ResolveDirs ==
  /\ cpc = "start"
  /\ dirs' = dirs \cup {"raw", "CSVs", "logs"}
  /\ LET candidate == IF converted_arg # None THEN converted_arg[1]
                      ELSE "converted"
     IN converted_dir' = IF candidate \in dirs THEN Some(candidate) ELSE None
  /\ cpc' = "broad"
  /\ UNCHANGED <<converted_arg, disk, run_calls, ledger_files, unified,
                 artifacts>>
  /\ UNCHANGED <<hvars, evars, tvars, dvars>>

\* main lines 100-109: run([... 'collect_broad.py' ...]), then the same for
\* collect_precise.py; a script that exits with a code other than 0 ends main
RunScript ==
  /\ cpc \in {"broad", "precise"}
  /\ \E end \in ScriptEnds :
       /\ run_calls' = Append(run_calls, cpc)
       /\ dirs' = dirs \cup {"raw", "CSVs", "logs", MergedDir(cpc)}
       /\ IF end = "crashed"
          THEN UNCHANGED <<disk, ledger_files>>
          ELSE /\ disk' = disk \cup FilesOf(cpc)
               /\ ledger_files' =
                    [ledger_files EXCEPT ![cpc] = Some(ModeLedger(cpc, end))]
       /\ cpc' = IF ExitCode(end) # 0 THEN "failed"
                 ELSE IF cpc = "broad" THEN "precise" ELSE "ledgers"
  /\ UNCHANGED <<converted_arg, converted_dir, unified, artifacts>>
  /\ UNCHANGED <<hvars, evars, tvars, dvars>>

\* main lines 111-120: the two ledgers are read and the unified ledger written
WriteUnified ==
  /\ cpc = "ledgers"
  /\ unified' = Some([modes |-> [n \in 1..Len(Modes) |->
                                   ledger_files[Modes[n]][1]]])
  /\ disk' = disk \cup {<<"logs", "harvest_ledger.json">>}
  /\ cpc' = "manifest"
  /\ UNCHANGED <<converted_arg, dirs, converted_dir, run_calls, ledger_files,
                 artifacts>>
  /\ UNCHANGED <<hvars, evars, tvars, dvars>>

\* main lines 121-128: the artifacts are listed and checksums.md written
WriteChecksums ==
  /\ cpc = "manifest"
  /\ artifacts' = Some(collect_artifacts(ArtifactSources))
  /\ cpc' = "done"
  /\ UNCHANGED <<converted_arg, dirs, disk, converted_dir, run_calls,
                 ledger_files, unified>>
  /\ UNCHANGED <<hvars, evars, tvars, dvars>>

NextCollect ==
  \/ ResolveDirs
  \/ RunScript
  \/ WriteUnified
  \/ WriteChecksums

InitCollectRun ==
  InitHarvest /\ EnrichIdle /\ TextIdle /\ DownloadIdle /\ InitCollect

SpecCollect == InitCollectRun /\ [][NextCollect]_vars

\* ------------------------------------------------- the text functions alone
InitPagesRun == InitHarvest /\ EnrichIdle /\ InitPages /\ DownloadIdle /\ CollectIdle

SpecPages == InitPagesRun /\ [][ApplyPagesTotal]_vars

InitDoiRun == InitHarvest /\ EnrichIdle /\ InitDoi /\ DownloadIdle /\ CollectIdle

SpecDoi == InitDoiRun /\ [][ApplyNormalizeDoi]_vars

\* ----------------------------------------------------- harvest: the claims
\* the records of the pages the server served, page after page
ServedData == Flatten([i \in 1..Len(served) |-> DataOf(served[i])])

RECURSIVE SumLens(_)
SumLens(pages) ==
  IF pages = <<>> THEN 0 ELSE Len(DataOf(Head(pages))) + SumLens(Tail(pages))

Aborted == resp # None /\ resp[1].status # OkStatus /\ pc # "returned"

\* C1: when every page response is a 200 and every page but the last carries
\* a token, the `data` list of the merged file is the concatenation of the
\* pages' `data` lists in fetch order: nothing skipped, duplicated or reordered.
C1_MergedIsConcatenation ==
  (pc = "done" /\ notes = <<>>) =>
    /\ merged_file = Some([data |-> ServedData])
    /\ \A k \in 1..(Len(served) - 1) : ~Falsy(served[k].token)

C1_Witness ==
  /\ pc = "done" /\ notes = <<>>
  /\ Len(served) = 2
  /\ Len(DataOf(served[1])) = 2 /\ Len(DataOf(served[2])) >= 1
  /\ DataOf(served[1])[1] # DataOf(served[1])[2]
  /\ DataOf(served[2])[1] # DataOf(served[1])[2]

\* C2: the first GET carries no token; every later GET carries the same search
\* parameters as the first plus the token of the page response before it; no
\* GET is issued once a page response has come without a token.
C2_RequestParameters ==
  \A g \in gets :
    /\ \A h \in gets : g[2].search = h[2].search
    /\ g[1] = 0 => g[2].token = None
    /\ g[1] > 0 => (g[2].token # None /\ g[2].token = served[g[1]].token)
    /\ \A k \in 1..g[1] : ~Falsy(served[k].token)

C2_Witness ==
  /\ pc = "done"
  /\ \E g \in gets : g[1] = 1 /\ g[2].token = Some("t2")
  /\ \E g \in gets : g[1] = 0
  /\ Falsy(Last(served).token)

\* C3: a page request that keeps receiving 502, 503 or 504 is retried only a
\* bounded number of times and then the mode is aborted with a note, so
\* run_mode ends even when the server answers 502/503/504 for ever.
C3_GatewayRetriesEnd ==
  (<>[](~outcome.exc /\ outcome.status \in GatewayRetry))
    => <>(pc = "done" /\ notes # <<>>)

\* C4: fetch_with_retries never returns a 429 or 500 response and never lets a
\* network exception out: after each of these it sleeps and issues the same
\* GET again, however often that has happened before.
UnboundedOutcome(o) == o.exc \/ o.status \in UnboundedRetry

C4_AlwaysRetried ==
  [][ /\ (pc = "get" /\ UnboundedOutcome(outcome')) => pc' = "sleep"
      /\ (pc = "sleep" /\ UnboundedOutcome(outcome)) =>
           (pc' = "get" /\ this_params' = this_params /\ page_idx' = page_idx)
      /\ pc' # "raised"
      /\ pc' = "returned" => resp'[1].status \notin UnboundedRetry ]_vars

C4_Witness ==
  /\ pc = "sleep" /\ outcome.status = 500
  /\ Len(served) = 1 /\ this_params[1].token = Some("t1")

\* C5: after a terminal non-200 status the error body is in that page's file,
\* a note is recorded, run_mode is past its last request, and the records of
\* the pages fetched before are kept: in the merged file, in the CSV and in
\* hits_retrieved.
C5_AbortKeepsPages ==
  Aborted =>
    /\ pc \in {"write", "done"}
    /\ Len(page_files) = Len(served) + 1
    /\ Last(page_files).idx = Len(served) + 1
    /\ Last(page_files).body.kind = "error"
    /\ Last(page_files).body.http_status = resp[1].status
    /\ Last(page_files).body.error = resp[1].text
    /\ notes = <<AbortNote(resp[1].status)>>
    /\ data_buffer = ServedData
    /\ pc = "done" =>
         /\ merged_file = Some([data |-> ServedData])
         /\ Len(csv_file[1]) = Len(ServedData)
         /\ ledger[1].hits_retrieved = Len(ServedData)
         /\ ledger[1].notes = notes

C5_Witness ==
  /\ Aborted /\ pc = "done"
  /\ resp[1].status = 404
  /\ Len(served) = 1 /\ Len(ServedData) = 2

\* C6: at the end of run_mode hits_retrieved is the sum of the record counts
\* of the pages fetched, and the CSV has one row per accumulated record, in
\* the same order, each with the 8 fixed columns.
ExpectedRow(r) ==
  IF r = RecFull
  THEN [mode |-> "BROAD", paperId |-> Some("p1"), title |-> Some("Alpha"),
        publicationDate |-> Some(<<"2", "0", "2", "1", "-", "0", "3">>),
        year |-> Some(2021),
        publicationTypes |-> [kind |-> "str", v |-> <<"JournalArticle", "; ", "Review">>],
        fieldsOfStudy |-> [kind |-> "str", v |-> <<"Computer Science">>],
        influentialCitationCount |-> Some(3)]
  ELSE [mode |-> "BROAD", paperId |-> Some("p2"), title |-> None,
        publicationDate |-> Some(<<"n", ".", "d", ".", "1", "9", "9", "9">>),
        year |-> None,
        publicationTypes |-> [kind |-> "none", v |-> <<>>],
        fieldsOfStudy |-> [kind |-> "str", v |-> <<"Medicine">>],
        influentialCitationCount |-> None]

C6_LedgerAndCsv ==
  pc = "done" =>
    /\ ledger[1].hits_retrieved = SumLens(served)
    /\ Len(csv_file[1]) = Len(data_buffer)
    /\ \A i \in 1..Len(data_buffer) :
         /\ Cardinality(DOMAIN csv_file[1][i]) = 8
         /\ csv_file[1][i] = ExpectedRow(data_buffer[i])

C6_Witness ==
  /\ pc = "done"
  /\ Len(served) = 2
  /\ Len(csv_file[1]) = 4
  /\ data_buffer[1] = data_buffer[3] /\ data_buffer[1] # data_buffer[2]


\* -------------------------------------------------- enrichment: the claims
\* C7: when a paper-batch or author-batch call fails, the returned dataset is
\* the input dataset, row for row and column for column, plus an s2_enriched
\* flag that is false; no enrichment column is filled, whatever batches had
\* succeeded before.
C7_AbortReturnsInput ==
  epc = "aborted" =>
    /\ Len(result[1]) = Len(df)
    /\ \A n \in 1..Len(df) :
         /\ DOMAIN result[1][n] = (DOMAIN df[n]) \cup {"s2_enriched"}
         /\ \A c \in DOMAIN df[n] : result[1][n][c] = df[n][c]
         /\ result[1][n]["s2_enriched"] = FALSE

C7_Witness ==
  /\ epc = "aborted"
  /\ Len(papers) = 2
  /\ papers[1].paperId = "p1"
  /\ DOMAIN author_info # {}
  /\ author_j < Len(author_ids)

\* C8: when a batch call fails and the enrichment is aborted, the write of
\* provenance/run.json is still attempted for that run.
C8_RunJsonOnAbort == epc = "aborted" => run_attempted

\* C9 as stated: a failed references lookup never aborts the enrichment, the
\* remaining lookups are still issued, the result is returned enriched with
\* the other fields filled, and the paper of the failed lookup has no
\* _max_cited_year.
FailedLookupTolerated ==
  /\ ref_failed # {} => epc # "aborted"
  /\ (ref_failed # {} /\ epc \in {"write_run", "returned"}) =>
       /\ ref_done = Len(ids)
       /\ \A n \in 1..Len(df) :
            /\ result[1][n]["s2_enriched"] = TRUE
            /\ df[n].paperId # "" => result[1][n]["citation_count"] # None

C9_FailedLookupLeavesUnset ==
  /\ FailedLookupTolerated
  /\ (ref_failed # {} /\ epc \in {"write_run", "returned"}) =>
       \A n \in 1..Len(df) :
         df[n].paperId \in ref_failed => result[1][n]["_max_cited_year"] = None

\* C9 as amended: the failed lookup itself sets no value; the paper has no
\* _max_cited_year unless another lookup of the same paperId (an id that
\* occurs in several input rows) returned integer years.
C9_FailedLookupSetsNothing ==
  /\ FailedLookupTolerated
  /\ (ref_failed # {} /\ epc \in {"write_run", "returned"}) =>
       \A n \in 1..Len(df) :
         df[n].paperId \in (ref_failed \ ref_found)
           => result[1][n]["_max_cited_year"] = None

C9_Witness ==
  /\ epc = "returned"
  /\ Len(ids) = 2
  /\ ids[1] \in ref_failed /\ ids[1] \notin ref_found
  /\ ids[2] \in ref_found /\ ids[2] \notin ref_failed
  /\ result[1][1]["_max_cited_year"] = None
  /\ result[1][2]["_max_cited_year"] # None

OutRows == IF result = None THEN <<>> ELSE result[1]

\* the row has a _max_cited_year
HasMaxCited(r) == "_max_cited_year" \in DOMAIN r /\ r["_max_cited_year"] # None

\* C11: in every row of the enriched output whose publication year is known,
\* the _max_cited_year written never exceeds that row's year, whatever the
\* reference years returned and also when a paperId occurs in several rows.
C11_MaxCitedWithinYear ==
  \A n \in 1..Len(OutRows) :
    (OutRows[n].year # None /\ HasMaxCited(OutRows[n]))
      => OutRows[n]["_max_cited_year"][1] <= OutRows[n].year[1]

\* the elements of a list
SeqSet(l) == {l[n] : n \in 1..Len(l)}

SetMax(S) == CHOOSE m \in S : \A y \in S : y <= m

\* the year the input gives for a paper: that of the first row with its id
FirstYear(pid) ==
  LET rows == {n \in 1..Len(df) : df[n].paperId = pid}
      first == CHOOSE n \in rows : \A m \in rows : n <= m
  IN df[first].year

\* the rule for the max cited year of a paper with reference years Y
RuleValue(Y, py) ==
  IF py # None
  THEN LET before == {y \in Y : y <= py[1]}
       IN IF before # {} THEN SetMax(before) ELSE py[1]
  ELSE SetMax(Y)

\* a references lookup has just returned at least one integer year
LookupWithYears ==
  /\ epc = "get_ref"
  /\ epc' = "refs"
  /\ yrs' # None
  /\ yrs'[1] # <<>>

\* C12: for every paper whose references lookup returns at least one integer
\* year, the max cited year computed is: with the paper's year known, the
\* largest reference year that is <= the paper's year, or the paper's own year
\* when no reference year is <= it; with the year unknown, the largest of all
\* the reference years.
C12_MaxCitedRule ==
  [][LookupWithYears =>
       max_cited_year'[ids[ref_k]] =
         RuleValue(SeqSet(yrs'[1]), FirstYear(ids[ref_k]))]_vars

\* a lookup returned years on both sides of the paper's year and the largest
\* of those not after it was kept
C12_Witness ==
  /\ epc = "refs"
  /\ ref_k > 1
  /\ yrs # None
  /\ LET pid == ids[ref_k - 1]
         py == FirstYear(pid)
     IN /\ py # None
        /\ \E y \in SeqSet(yrs[1]) : y > py[1]
        /\ \E y \in SeqSet(yrs[1]) : y <= py[1] /\ max_cited_year[pid] = y

\* C13 as stated: every row of a paper with a references lookup that yielded
\* no reference or no integer reference year has _max_cited_year unset.
C13_EmptyLookupLeavesUnset ==
  \A n \in 1..Len(OutRows) :
    OutRows[n].paperId \in ref_empty => ~HasMaxCited(OutRows[n])

\* C13: a references lookup that yields no reference or no integer year sets
\* nothing: the rows of a paper none of whose lookups returned an integer year
\* have _max_cited_year unset (not 0, not the paper's own year).
C13_NoYearLeavesUnset ==
  \A n \in 1..Len(OutRows) :
    (OutRows[n].paperId \in ref_empty /\ OutRows[n].paperId \notin ref_found)
      => ~HasMaxCited(OutRows[n])

\* an enriched row of a paper with a known year whose lookup had no integer year
C13_Witness ==
  /\ epc = "returned"
  /\ \E n \in 1..Len(OutRows) :
       /\ OutRows[n].paperId \in ref_empty \ ref_found
       /\ OutRows[n].year # None
       /\ OutRows[n].s2_enriched
       /\ OutRows[n].abstract # None
       /\ "_max_cited_year" \in DOMAIN OutRows[n]
       /\ OutRows[n]["_max_cited_year"] = None

\* the doi cell of an input row, empty without the column
InputDoi(n) == IF "doi" \in DOMAIN df[n] THEN df[n].doi ELSE <<>>

\* the normalised DOI of a paper's external identifiers, empty when the
\* paper has none or an invalid one
ExtDoiOf(pp) ==
  IF pp.externalIds # None /\ pp.externalIds[1].DOI # None
  THEN normalize_doi(pp.externalIds[1].DOI[1]) ELSE <<>>

\* the normalised DOI found in a paper's open-access PDF URL, empty when
\* there is none or an invalid one
UrlDoiOf(pp) ==
  IF pp.openAccessPdf # None /\ SearchDoiUrl(pp.openAccessPdf[1]) # None
  THEN normalize_doi(SearchDoiUrl(pp.openAccessPdf[1])[1]) ELSE <<>>

\* C16: in the enriched output a row whose input DOI is not blank keeps
\* exactly that DOI; the DOI of the response's external identifiers is used
\* only when the input DOI is blank, and the DOI found in the open-access PDF
\* URL only when the input DOI is blank and the external one absent or invalid.
C16_DoiPreference ==
  epc = "returned" =>
    \A n \in 1..Len(df) :
      ById(papers, df[n].paperId) # None =>
        LET pp == ById(papers, df[n].paperId)[1]
            out == OutRows[n].doi
            ext == ExtDoiOf(pp)
            url == UrlDoiOf(pp)
        IN IF ~Blank(InputDoi(n)) THEN out = InputDoi(n)
           ELSE IF ext # <<>> THEN out = ext
           ELSE IF url # <<>> THEN out = url
           ELSE out = InputDoi(n)

\* a filled input DOI was kept although the response has a valid one, and a
\* whitespace-only one was replaced by the DOI of the PDF URL, the external
\* one being invalid
C16_Witness ==
  /\ epc = "returned"
  /\ \E n \in 1..Len(df) :
       /\ ~Blank(InputDoi(n))
       /\ ById(papers, df[n].paperId) # None
       /\ ExtDoiOf(ById(papers, df[n].paperId)[1]) # <<>>
       /\ OutRows[n].doi = InputDoi(n)
  /\ \E n \in 1..Len(df) :
       /\ InputDoi(n) = <<" ">>
       /\ ById(papers, df[n].paperId) # None
       /\ ById(papers, df[n].paperId)[1].externalIds[1].DOI # None
       /\ OutRows[n].doi = <<"1", "0", ".", "3", "/", "c">>

\* the cell of row n of the sheet under the column named c
SheetCell(n, c) ==
  sheet[1].rows[n][CHOOSE k \in 1..Len(sheet[1].columns) : sheet[1].columns[k] = c]

\* C17: the exported dataset has exactly the columns of DATA_COLUMNS, in
\* schema order; a schema column the input lacks is there and holds the empty
\* string, an input column outside the schema is dropped, and the rows are
\* those of the input in number and order; so also for the dataset of an
\* aborted enrichment.
C17_ExportSchema ==
  sheet # None =>
    /\ sheet[1].columns = DATA_COLUMNS
    /\ Len(sheet[1].rows) = Len(OutRows)
    /\ \A n \in 1..Len(OutRows) :
         /\ Len(sheet[1].rows[n]) = Len(DATA_COLUMNS)
         /\ \A c \in SeqSet(DATA_COLUMNS) \ DOMAIN OutRows[n] : SheetCell(n, c) = <<>>
         /\ \A c \in SeqSet(DATA_COLUMNS) \cap DOMAIN OutRows[n] :
              SheetCell(n, c) = OutRows[n][c]
         /\ \A c \in (DOMAIN OutRows[n]) \ SeqSet(DATA_COLUMNS) :
              c \notin SeqSet(sheet[1].columns)

\* the dataset of an aborted enrichment, two rows of different papers, was
\* exported: it lacks schema columns and carries the s2_enriched flag
C17_Witness ==
  /\ sheet # None
  /\ epc = "aborted"
  /\ Len(OutRows) = 2
  /\ OutRows[1].paperId # OutRows[2].paperId
  /\ "s2_enriched" \in DOMAIN OutRows[1]
  /\ "abstract" \notin DOMAIN OutRows[1]
  /\ SheetCell(1, "paperId") = OutRows[1].paperId
  /\ SheetCell(2, "paperId") = OutRows[2].paperId

\* --------------------------------------------- text functions: the claims
\* the text between its first and its last character that is not whitespace
Trimmed(s) ==
  LET ns == {n \in 1..Len(s) : s[n] \notin Space}
  IN IF ns = {} THEN <<>>
     ELSE SubSeq(s, CHOOSE n \in ns : \A m \in ns : n <= m,
                    CHOOSE n \in ns : \A m \in ns : m <= n)

IsNumber(s) == s # <<>> /\ \A n \in 1..Len(s) : s[n] \in Digit

RECURSIVE Pow10(_)
Pow10(e) == IF e = 0 THEN 1 ELSE 10 * Pow10(e - 1)

RECURSIVE NumberValue(_)
NumberValue(s) ==
  IF s = <<>> THEN 0
  ELSE DigitVal(Head(s)) * Pow10(Len(s) - 1) + NumberValue(Tail(s))

\* what stands before and after the only dash of a text
BeforeDash(t) == Trimmed(SubSeq(t, 1, (CHOOSE n \in 1..Len(t) : t[n] = "-") - 1))
AfterDash(t) == Trimmed(SubSeq(t, (CHOOSE n \in 1..Len(t) : t[n] = "-") + 1, Len(t)))

\* the text has the form <start>-<end> with integers start and end
RangeForm(t) ==
  /\ Cardinality({n \in 1..Len(t) : t[n] = "-"}) = 1
  /\ IsNumber(BeforeDash(t))
  /\ IsNumber(AfterDash(t))

\* C14: for a page range of the form <start>-<end> with integer start and
\* end, pages_total is end - start + 1 when end >= start; it is left unset
\* when end < start and when the text does not have that form.
C14_PagesTotal ==
  tpc = "pages_total" =>
    IF RangeForm(text) /\ NumberValue(AfterDash(text)) >= NumberValue(BeforeDash(text))
    THEN ret = Some(NumberValue(AfterDash(text)) - NumberValue(BeforeDash(text)) + 1)
    ELSE ret = None

\* a range of several pages, written with whitespace around a number
C14_Witness ==
  /\ tpc = "pages_total"
  /\ ret # None
  /\ ret[1] > 1
  /\ \E n \in 1..Len(text) : text[n] \in Space

\* s with the characters of cs removed at both ends, read off the positions
TrimmedOf(s, cs) ==
  LET ns == {n \in 1..Len(s) : s[n] \notin cs}
  IN IF ns = {} THEN <<>>
     ELSE SubSeq(s, CHOOSE n \in ns : \A m \in ns : n <= m,
                    CHOOSE n \in ns : \A m \in ns : m <= n)

Chars(s) == {s[n] : n \in 1..Len(s)}

\* s in lower case equals p
SameIgnoringCase(s, p) ==
  Len(s) = Len(p) /\ \A n \in 1..Len(p) : Lower(s[n]) = Lower(p[n])

\* the two prefixes the claim names
NamedPrefixes == {DoiPrefix(TRUE, FALSE), DoiPrefix(FALSE, TRUE)}

\* normalize_doi was applied to a named prefix, in any case, followed by rest
PrefixedCase(rest) ==
  /\ tpc = "normalize_doi"
  /\ \E p \in NamedPrefixes :
       /\ Len(text) = Len(p) + Len(rest)
       /\ SameIgnoringCase(SubSeq(text, 1, Len(p)), p)
       /\ SubSeq(text, Len(p) + 1, Len(text)) = rest

\* the shape of every result: lower case, no slash at the end, and when it
\* is not empty a slash and no space inside
ResultShape ==
  tpc = "normalize_doi" =>
    /\ \A n \in 1..Len(ret) : ret[n] = Lower(ret[n])
    /\ ret # <<>> => (ret[Len(ret)] # "/" /\ "/" \in Chars(ret) /\ " " \notin Chars(ret))

\* a named prefix is stripped: a result that is not empty is the rest without
\* the whitespace and slashes around it, in lower case
PrefixStripped ==
  \A rest \in {SubSeq(text, n, Len(text)) : n \in 1..(Len(text) + 1)} :
    PrefixedCase(rest)
      => (ret = <<>> \/ SameIgnoringCase(ret, TrimmedOf(TrimmedOf(rest, Space), {"/"})))

\* C15 as stated: the prefix is stripped case-insensitively, trailing slashes
\* are stripped, the result is in lower case, a non-empty result has a slash
\* and no space, and every candidate with a space or without a slash yields
\* the empty result.
C15_SpaceOrNoSlashRejected ==
  /\ ResultShape
  /\ PrefixStripped
  /\ tpc = "normalize_doi" =>
       ((" " \in Chars(text) \/ "/" \notin Chars(text)) => ret = <<>>)

\* what is left of a candidate once the whitespace around it, a DOI prefix
\* and the whitespace and slashes around the rest are removed
Core(t) ==
  LET t1 == TrimmedOf(t, Space)
      ps == {p \in {DoiPrefix(a, b) : a, b \in BOOLEAN} :
               Len(t1) >= Len(p) /\ SameIgnoringCase(SubSeq(t1, 1, Len(p)), p)}
      t2 == IF ps = {} THEN t1
            ELSE SubSeq(t1, Len(CHOOSE p \in ps : TRUE) + 1, Len(t1))
  IN TrimmedOf(TrimmedOf(t2, Space), {"/"})

\* C15: normalize_doi removes the whitespace around the candidate, strips a
\* leading DOI prefix case-insensitively, strips the slashes around the rest
\* and lowercases; a non-empty result has a slash and no space, and the
\* result is empty exactly when what is left of the candidate has a space or
\* no slash (the empty candidate included).
C15_NormalizeDoi ==
  /\ ResultShape
  /\ PrefixStripped
  /\ tpc = "normalize_doi" =>
       IF " " \in Chars(Core(text)) \/ "/" \notin Chars(Core(text))
       THEN ret = <<>>
       ELSE SameIgnoringCase(ret, Core(text))

\* an upper-case prefix and a trailing slash were stripped and the rest
\* lowercased
C15_Witness ==
  /\ tpc = "normalize_doi"
  /\ ret = <<"1", "/", "b">>
  /\ Len(text) > 18
  /\ text[1] = "H"
  /\ text[Len(text)] = "/"

\* ---------------------------------------------------- downloads: the claims
\* the tasks whose thread is between opening and checking the output file
Saving == {t \in 1..Len(job) : job[t].pc \in {"open", "write", "check"}}

\* C18: no two tasks submitted to the pool have the same output file path, so
\* no two threads are ever writing or deleting the same file at a time,
\* whatever the table, one with a paperId in several rows included.
C18_DistinctPaths ==
  /\ \A t, u \in 1..Len(tasks) :
       t # u => OutPath(tasks[t]) # OutPath(tasks[u])
  /\ \A t, u \in Saving :
       t # u => OutPath(tasks[t]) # OutPath(tasks[u])

\* the outcomes of a failed attempt: the request raised (a timeout, HTTP 503
\* or 429), or one of the two checks found no PDF
FailedOutcomes == {"error", "nonpdf"}

\* what one step may do to a task that is inside download_single
AttemptStep(j, k) ==
  \/ k = j
  \/ /\ j.pc = "stream"                   \* the first check passed
     /\ k = [j EXCEPT !.pc = "full", !.last = "pdf"]
  \/ /\ j.pc = "full"                     \* both passed: the response is returned
     /\ k = [j EXCEPT !.pc = "open", !.last = "pdf"]
  \/ /\ j.attempt < MAX_RETRIES           \* the attempt failed, the next starts
     /\ k.pc = "stream"
     /\ k.attempt = j.attempt + 1
     /\ k.last \in FailedOutcomes
  \/ /\ j.attempt = MAX_RETRIES           \* the last attempt failed: None
     /\ k.pc = "fallback"
     /\ k.attempt = MAX_RETRIES
     /\ k.last \in FailedOutcomes

\* C19: download_single makes at most MAX_RETRIES attempts for a URL; the
\* response of the first attempt that passes both PDF checks is returned, in
\* that attempt, and no request follows it; an attempt that failed is followed
\* by the next one, which may succeed; None is returned only when attempt
\* number MAX_RETRIES has failed.
C19_BoundedAttempts ==
  [][\A t \in (DOMAIN job) \cap (DOMAIN job') :
       LET j == job[t]
           k == job'[t]
       IN /\ k.attempt \in 0..MAX_RETRIES
          /\ k.pc \in {"stream", "full"} => k.attempt >= 1
          /\ j.pc \in {"stream", "full"} => AttemptStep(j, k)
          /\ k.pc \in {"stream", "full"} => j.pc \in {"queued", "stream", "full"}
          /\ (j.pc = "queued" /\ k.pc = "stream") => k.attempt = 1]_vars

\* a task whose first attempts failed and whose last attempt passed both
\* checks: its response is about to be saved
C19_Witness ==
  \E t \in 1..Len(job) :
    /\ job[t].pc = "open"
    /\ job[t].last = "pdf"
    /\ job[t].attempt = MAX_RETRIES

\* the reason of a task for which every strategy failed
AllFailedText == "download failed (all retries) for"

\* the failure record the pool's result of task t is turned into
RecordOf(t) ==
  [identifier |-> Identifier(tasks[t].pid, tasks[t].idx),
   url |-> tasks[t].url, reason |-> job[t].result[1][1]]

\* the tasks that ended with a failure
FailedTasks ==
  {t \in 1..Len(job) : job[t].pc = "done" /\ job[t].result[1] # None}

\* how often a record is in a list
CountIn(r, list) == Cardinality({n \in 1..Len(list) : list[n] = r})

\* every task has ended, and the list holds the filtered rows first and then
\* one record for each failed task, nothing else
FailureListExact ==
  /\ \A t \in 1..Len(tasks) : job[t].pc = "done" /\ t \in collected
  /\ Len(failures) = Len(FilteredOf(table, 0)) + Cardinality(FailedTasks)
  /\ SubSeq(failures, 1, Len(FilteredOf(table, 0))) = FilteredOf(table, 0)
  /\ \A t \in FailedTasks :
       CountIn(RecordOf(t), failures)
         = CountIn(RecordOf(t), FilteredOf(table, 0))
           + Cardinality({u \in FailedTasks : RecordOf(u) = RecordOf(t)})

\* a task for which every strategy failed names its URL and has no output file
NoFileWhenAllFailed ==
  \A t \in FailedTasks :
    job[t].result[1][1].text = AllFailedText =>
      /\ job[t].result[1][1].about = tasks[t].url
      /\ out_dir[OutPath(tasks[t])] = "absent"

\* C20: when download_papers returns, every submitted task has ended with one
\* outcome, the failure list holds exactly one record (identifier, URL,
\* reason) for each failed item whatever happened to the other tasks, and an
\* item for which every strategy failed has the reason `download failed (all
\* retries) for <url>` and no output file.
C20_FailureList ==
  mpc = "returned" => FailureListExact /\ NoFileWhenAllFailed

\* the fetches a task has behind it when it stands at the Selenium fallback:
\* download_single records the outcome of its last attempt, an httpx-based
\* fetch would record "httpx"
LastFetch(t) == job[t].last

\* C21: after the requests-based download failed MAX_RETRIES times, an
\* httpx-based fetch is tried before the Selenium fallback: no task stands at
\* the Selenium fallback with a failed requests attempt as the last fetch it
\* made, and PDF bytes of the httpx fetch are saved without Selenium running.
C21_HttpxBeforeSelenium ==
  \A t \in 1..Len(job) :
    job[t].pc = "fallback" => LastFetch(t) = "httpx"

\* task t ends in this step
Ends(t) == job[t].pc # "done" /\ job'[t].pc = "done"

\* C22: at the moment _download_task reports success for an item, the file at
\* the item's output path starts with the PDF magic bytes; and a task whose
\* check of the file it wrote fails reports a failure and leaves no file.
C22_SuccessIsPdf ==
  [][\A t \in (DOMAIN job) \cap (DOMAIN job') :
       Ends(t) =>
         LET p == OutPath(tasks[t]) IN
           /\ job'[t].result = Some(None) => out_dir'[p] = "pdf"
           /\ (job[t].pc = "check" /\ out_dir[p] # "pdf") =>
                /\ job'[t].result # Some(None)
                /\ out_dir'[p] = "absent"]_vars

\* ------------------------------------------- unified collection: the claims
\* the directories a converted directory can be: the default one and the one
\* --converted-dir names
ConvertedDirs == {"converted", "alt"}

\* the paths of an artifact list
Listed(list) == {list[n] : n \in 1..Len(list)}

\* C23: the artifact list of the checksum manifest holds every file under
\* the raw, intermediate and CSVs directories and no file under a converted
\* directory, also when one exists; and main creates no converted directory.
C23_ManifestSources ==
  [][/\ (dirs' \ dirs) \cap ConvertedDirs = {}
     /\ cpc' = "done" =>
          /\ \A f \in disk' :
               f[1] \in {"raw", "intermediate", "CSVs"}
                 => f \in Listed(artifacts'[1])
          /\ \A f \in Listed(artifacts'[1]) : f[1] \notin ConvertedDirs]_vars

\* ------------------------------------------- harvest: files and accumulator
\* the responses fetch_with_retries has returned to run_mode
Received ==
  Len(served) + (IF resp # None /\ resp[1].status # OkStatus THEN 1 ELSE 0)

\* the records of the first n page files
RECURSIVE FiledData(_)
FiledData(n) ==
  IF n = 0 THEN <<>> ELSE FiledData(n - 1) \o DataOf(page_files[n].body)

\* the page files whose records run_mode has appended: all the pages written,
\* but for the one written last while its records are not yet appended
Appended ==
  Cardinality({n \in 1..Len(page_files) : page_files[n].body.kind = "page"})
    - (IF pc = "saved" THEN 1 ELSE 0)

\* C24: in every state of run_mode the accumulator holds the records of page
\* files already written and of no other page (the file of a page is written
\* before its records are appended), and there is one page file per response
\* that run_mode has handled, the n-th named by the mode and the index n and
\* holding the n-th response.
C24_FileBeforeRecords ==
  /\ Appended >= 0
  /\ data_buffer = FiledData(Appended)
  /\ Len(page_files) = Received - (IF pc = "returned" THEN 1 ELSE 0)
  /\ \A n \in 1..Len(page_files) :
       /\ page_files[n].mode = mode_tag
       /\ page_files[n].idx = n
       /\ IF n <= Len(served)
          THEN page_files[n].body = PageBody(served[n])
          ELSE page_files[n].body = ErrorBody(resp[1])

\* the file of the second page is written, and its records are not yet in
\* the accumulator, which holds those of the first page
C24_Witness ==
  /\ pc = "saved"
  /\ Len(page_files) = 2
  /\ data_buffer # <<>>
  /\ DataOf(resp[1]) # <<>>
  /\ Len(data_buffer) = Len(DataOf(page_files[1].body))

\* ----------------------------------------- enrichment: requests and failure
\* this step is a network request of the client: every request counts as an
\* attempt
Requests == attempt' = attempt + 1

\* this step is a batch call returning None
BatchFails ==
  /\ epc \in {"post_paper", "post_author"}
  /\ Requests
  /\ PostVerdict(eoutcome', attempt', max_retries) = "fail"

\* C25: a failed paper-batch or author-batch call ends enrich_extract at
\* once, and after it no request of any kind is made; a request for authors
\* or references is only made when every paper batch has succeeded.
C25_NoRequestAfterFailure ==
  [][/\ BatchFails => epc' = "aborted"
     /\ epc = "aborted" => (~Requests /\ epc' = "aborted")
     /\ (Requests /\ epc \in {"post_author", "get_ref"}) =>
          /\ batch_i >= Len(ids)
          /\ Len(papers) = Len(ids)]_vars

\* an author batch has failed after the paper batches succeeded, with author
\* ids and references still to be requested
C25_Witness ==
  /\ epc = "aborted"
  /\ Len(ids) > 0
  /\ batch_i >= Len(ids)
  /\ author_j < Len(author_ids)
  /\ ref_done = 0

\* a POST of _post_json is made in this step
Posts == epc \in {"post_paper", "post_author"} /\ Requests

\* the client sleeps and tries again
Retried == epc' \in {"sleep_paper", "sleep_author"}

\* C26: in _post_json a 429 or 500 response is always retried and never
\* fails the call; a 502 or 503 response is retried while the bound
\* max_retries of that class is not reached, and attempts spent on 429/500 do
\* not count toward it: with max_retries > 1, the first 502/503 of a call is
\* retried also when it follows a 429/500 retry.
C26_RetryClasses ==
  [][Posts =>
       /\ (~eoutcome'.exc /\ eoutcome'.status \in {429, 500}) => Retried
       /\ (~eoutcome'.exc /\ eoutcome'.status \in {502, 503}
             /\ max_retries > 1
             /\ attempt = 1 /\ ~eoutcome.exc /\ eoutcome.status \in {429, 500}) =>
            Retried]_vars

\* the broad script has stopped early: its ledger carries the note of the
\* terminal HTTP error
BroadStopped ==
  /\ ledger_files["broad"] # None
  /\ ledger_files["broad"][1].notes # <<>>

\* C27: after a broad mode that stopped early on a terminal HTTP error the
\* precise script is still run; and the unified ledger is written only when
\* both scripts have finished, with the two per-mode ledgers in the order
\* broad, precise.
C27_PreciseStillRuns ==
  /\ (BroadStopped /\ cpc # "precise") => run_calls = <<"broad", "precise">>
  /\ unified # None =>
       /\ run_calls = <<"broad", "precise">>
       /\ \A m \in {"broad", "precise"} : ledger_files[m] # None
       /\ unified[1].modes
            = <<ledger_files["broad"][1], ledger_files["precise"][1]>>
       /\ unified[1].modes[1].mode = "BROAD"
       /\ unified[1].modes[2].mode = "PRECISE"

\* the run is over, and the unified ledger holds the ledger of a broad mode
\* that stopped early and the one of the precise mode run after it
C27_Witness ==
  /\ cpc = "done"
  /\ BroadStopped
  /\ unified # None
  /\ unified[1].modes[1].notes # <<>>
  /\ unified[1].modes[2].mode = "PRECISE"

\* ----------------------------------------------------- enrichment: batching
\* the batches are consecutive pieces of the list l, each of 1..batch_size
\* entries and all but the last of batch_size, and together a prefix of l
ConsecutiveBatches(batches, l) ==
  LET sent == Flatten(batches) IN
    /\ \A n \in 1..Len(batches) :
         /\ Len(batches[n]) \in 1..batch_size
         /\ n < Len(batches) => Len(batches[n]) = batch_size
    /\ Len(sent) <= Len(l)
    /\ sent = SubSeq(l, 1, Len(sent))

\* the author ids of the papers returned
AuthorsFound ==
  UNION {SeqSet(papers[n].authors) : n \in 1..Len(papers)}

\* the paper batches are all in
PapersPhaseOver ==
  epc \in {"authors", "post_author", "sleep_author", "refs", "get_ref",
           "sleep_ref", "write_run", "returned"}

\* the author batches are all in
AuthorsPhaseOver ==
  epc \in {"refs", "get_ref", "sleep_ref", "write_run", "returned"}

\* C28: the batches handed to paper_batch are consecutive pieces of at most
\* batch_size entries of the identifier list and, once the paper batches are
\* through, concatenate to that list, every entry in exactly one batch; and
\* once the author batches are through every distinct author id found in the
\* returned papers is in exactly one author batch.
C28_Batching ==
  /\ ConsecutiveBatches(posted.papers, ids)
  /\ PapersPhaseOver => Flatten(posted.papers) = ids
  /\ ConsecutiveBatches(posted.authors, author_ids)
  /\ AuthorsPhaseOver =>
       LET sent == Flatten(posted.authors) IN
         /\ SeqSet(sent) = AuthorsFound
         /\ \A a \in AuthorsFound :
              Cardinality({n \in 1..Len(sent) : sent[n] = a}) = 1

\* two paper batches and two author batches have been sent
C28_Witness ==
  /\ AuthorsPhaseOver
  /\ Len(posted.papers) = 2
  /\ Len(posted.authors) = 2

\* ------------------------------------------- enrichment: h-index of authors
\* the h-index values the endpoints hold for the authors of a paper, in the
\* order of the paper: an author without a record, or whose record has no
\* integer hIndex, has none
AuthorHIndexes(pid) ==
  LET hasValue(a) == a \in KnownAuthors /\ AuthorOf(a).hIndex # None
      kept == SelectSeq(PaperOf(pid).authors, hasValue)
  IN [n \in 1..Len(kept) |-> AuthorOf(kept[n]).hIndex[1]]

\* C29: in the enriched dataset authors_hindex_list of a paper holds the
\* h-index of exactly the co-authors found in the author-batch results with
\* an integer h-index, in the order of the paper's authors; mean_author_hindex
\* is set exactly when that list is not empty, and both are left unset when
\* there is no such co-author.
C29_AuthorsHIndex ==
  epc \in {"write_run", "returned"} =>
    \A n \in 1..Len(result[1]) :
      LET r == result[1][n]
          hs == AuthorHIndexes(r.paperId)
      IN r.paperId # "" =>
           /\ r.authors_hindex_list = (IF hs # <<>> THEN Some(hs) ELSE None)
           /\ (r.mean_author_hindex # None) <=> (hs # <<>>)

\* a paper whose unknown first author is skipped and whose two other authors
\* are listed in the paper's order, and a paper without any value
C29_Witness ==
  /\ epc = "returned"
  /\ \E n \in 1..Len(result[1]) :
       /\ result[1][n].paperId = "p2"
       /\ result[1][n].authors_hindex_list = Some(<<4, 10>>)
       /\ result[1][n].mean_author_hindex # None
  /\ \E n \in 1..Len(result[1]) :
       /\ result[1][n].paperId = "p3"
       /\ result[1][n].authors_hindex_list = None
       /\ result[1][n].mean_author_hindex = None

\* ------------------------------------------- text functions: a second pass
\* C30: normalize_doi is idempotent: handing it its own result gives that
\* result again, for every input, those with a repeated doi.org prefix or
\* with whitespace next to a leading or trailing slash included.
C30_NormalizeDoiIdempotent ==
  tpc = "normalize_doi" => normalize_doi(ret) = ret

=============================================================================
